---- MODULE Spec2Model ----
(***************************************************************************)
(* powereg: the runtime control loop of the power-management daemon.       *)
(*                                                                         *)
(*   poll_events  ->  handle_event  ->  periodic_check                     *)
(*                                  ->  state_transition                   *)
(*                                  ->  set_performance_mode /             *)
(*                                      set_powersave_mode                 *)
(*                                                                         *)
(* Two specifications are defined over the same variables:                 *)
(*   Spec    the daemon: post_init, then the poll / handle loop of main;   *)
(*   SpecFn  Event::state_transition applied on its own to every           *)
(*           (state, event) pair, twice in a row.                          *)
(***************************************************************************)
EXTENDS Integers, Sequences, FiniteSets, TLC

\* ------------------------------------------------------------------------
\* Bounds of the model
\* ------------------------------------------------------------------------

\* number of CPU cores (SystemState::num_cpu_cores), cores are 1..NumCores
NumCores == 2

\* number of successive applications of state_transition in SpecFn
MaxApply == 2

\* ------------------------------------------------------------------------
\* Program constants
\* ------------------------------------------------------------------------

\* Event::HIGH_CPU_LOAD
HIGH_CPU_LOAD == 35

\* Event::LOW_CPU_LOAD
LOW_CPU_LOAD == 30

\* periodic_check: read_battery_capacity()? <= 20
LOW_BATTERY == 20

\* ------------------------------------------------------------------------
\* Types
\* ------------------------------------------------------------------------

\* enum State (events.rs uses State::Performance / Balanced / Powersave)
States == {"Powersave", "Balanced", "Performance"}

\* enum Event; the String carried by Error(String) is never inspected
Events == {"PowerInPlug", "PowerUnPlug", "PeriodicCheck", "LowBattery",
           "HighCpuLoad", "LowCpuLoad", "Unknown", "Error"}

\* what EventPoller::poll_events can return
PolledEvents == {"PowerInPlug", "PowerUnPlug", "PeriodicCheck", "Unknown", "Error"}

\* the outcome of one read of a control file: the value read (st = "ok"),
\* an Err from read_value or from parse (st = "err"), or no read at all
\* because the caller returned before it (st = "unread")
Rd(v) == [st |-> "ok", v |-> v]
ErrInt == [st |-> "err", v |-> 0]
ErrStr == [st |-> "err", v |-> ""]
UnreadInt == [st |-> "unread", v |-> 0]
UnreadStr == [st |-> "unread", v |-> ""]

\* values sampled for the CPU load (percent), around both thresholds
LoadSamples == {29, 30, 35, 90}

\* values sampled for the battery capacity (percent), around the threshold
CapacitySamples == {15, 20, 21, 80}

\* contents of the AC adapter's online file (trimmed)
OnlineContents == {"1", "0", "2"}

\* contents of the cpufreq boost file (trimmed)
BoostContents == {"0", "1"}

LoadReads == {Rd(v) : v \in LoadSamples} \cup {ErrInt}
CapacityReads == {Rd(v) : v \in CapacitySamples} \cup {ErrInt}
OnlineReads == {Rd(v) : v \in OnlineContents} \cup {ErrStr}
BoostReads == {Rd(v) : v \in BoostContents} \cup {ErrStr}

Cores == 1..NumCores

\* ------------------------------------------------------------------------
\* Variables
\* ------------------------------------------------------------------------
VARIABLES
    state,        \* SystemState.state: the PowerState
    pc,           \* position of main: "post_init", "poll", "handle", "panicked";
                  \* "fn" in SpecFn
    event,        \* the event returned by the last poll_events
    classified,   \* the event handed to state_transition by the last call
    prevEvent,    \* SpecFn: the event of the application before the last
    applied,      \* SpecFn: number of applications so far
    oldState,     \* state before the last state_transition
    sample,       \* reads of the last handle_event: load, cap, online, boost;
                  \* before post_init, the charging status read at startup
    guard,        \* charging status read by set_performance_mode in the last call
    boostReq,     \* argument of the last set_performance_mode call
    gov,          \* scaling_governor file of each core
    epp,          \* energy_performance_preference file of each core
    writes,       \* set_value calls of the last operation, in order
    result,       \* "Ok" / "Err" of the last operation, "none" before any
    fd,           \* SpecFd: one PersFd, its file and the last call on it
    poller,       \* SpecPoll: the EventPoller, its socket and its caller
    calc,         \* SpecGov, SpecLoad, SpecPower: arguments and result of a read;
                  \* SpecInstall: the install_daemon / uninstall_daemon call
    boot          \* SpecBoot: the startup of main, up to the choice of the mode

\* the variables of the control loop
loop == <<state, pc, event, classified, prevEvent, applied, oldState, sample,
          guard, boostReq, gov, epp, writes, result>>

\* the variables of the specifications of single components
parts == <<fd, poller, calc, boot>>

vars == <<loop, parts>>

\* a component that is not the subject of the specification
NoCall == [op |-> "none", arg |-> <<>>, ok |-> FALSE, was |-> 0]
NoRet == [st |-> "none", v |-> <<>>]
NoFd == [file |-> <<>>, offset |-> 0, write |-> FALSE, op |-> "none", arg |-> <<>>,
         ret |-> NoRet, was |-> 0, prev |-> NoCall]
NoPoller == [elapsed |-> 0, socket |-> <<>>, batch |-> <<>>, polled |-> "none",
             pc |-> "none"]
NoCalc == [fn |-> "none"]
NoBoot == [pc |-> "none"]
PartsIdle == fd = NoFd /\ poller = NoPoller /\ calc = NoCalc /\ boot = NoBoot

\* ------------------------------------------------------------------------
\* Faulty variants of state_transition, used to test the properties below
\* ------------------------------------------------------------------------

\* the Powersave arm lacks PowerInPlug => Performance
state_transition_NoPlugFromPowersave(e, old_state) ==
    CASE old_state \in {"Performance", "Balanced"} ->
            CASE e = "PowerInPlug" -> "Performance"
              [] e \in {"PowerUnPlug", "LowBattery"} -> "Powersave"
              [] e \in {"HighCpuLoad", "LowCpuLoad"} -> "Performance"
              [] OTHER -> old_state
      [] old_state = "Powersave" ->
            CASE e \in {"PowerUnPlug", "LowBattery"} -> "Powersave"
              [] OTHER -> old_state

\* the Balanced arm lacks LowBattery
state_transition_NoLowBatteryFromBalanced(e, old_state) ==
    CASE old_state = "Balanced" ->
            CASE e = "PowerInPlug" -> "Performance"
              [] e = "PowerUnPlug" -> "Powersave"
              [] e \in {"HighCpuLoad", "LowCpuLoad"} -> "Performance"
              [] OTHER -> old_state
      [] OTHER ->
            CASE e = "PowerInPlug" -> "Performance"
              [] e \in {"PowerUnPlug", "LowBattery"} -> "Powersave"
              [] e \in {"HighCpuLoad", "LowCpuLoad"} /\ old_state = "Performance" -> "Performance"
              [] OTHER -> old_state

\* the Performance arm sends HighCpuLoad to Balanced
state_transition_HighLoadToBalanced(e, old_state) ==
    CASE e = "PowerInPlug" -> "Performance"
      [] e \in {"PowerUnPlug", "LowBattery"} -> "Powersave"
      [] e = "HighCpuLoad" /\ old_state = "Performance" -> "Balanced"
      [] e = "HighCpuLoad" /\ old_state = "Balanced" -> "Performance"
      [] e = "LowCpuLoad" /\ old_state # "Powersave" -> "Performance"
      [] OTHER -> old_state

\* the Powersave arm has the load arm of the other two
state_transition_LoadArmInPowersave(e, old_state) ==
    CASE e = "PowerInPlug" -> "Performance"
      [] e \in {"PowerUnPlug", "LowBattery"} -> "Powersave"
      [] e \in {"HighCpuLoad", "LowCpuLoad"} -> "Performance"
      [] OTHER -> old_state

\* ------------------------------------------------------------------------
\* Event::state_transition (events.rs 30-54)
\* ------------------------------------------------------------------------
state_transition(e, old_state) ==
    CASE old_state = "Performance" ->
            CASE e = "PowerInPlug" -> "Performance"
              [] e \in {"PowerUnPlug", "LowBattery"} -> "Powersave"
              [] e \in {"HighCpuLoad", "LowCpuLoad"} -> "Performance"
              [] OTHER -> old_state
      [] old_state = "Balanced" ->
            CASE e = "PowerInPlug" -> "Performance"
              [] e \in {"PowerUnPlug", "LowBattery"} -> "Powersave"
              [] e \in {"HighCpuLoad", "LowCpuLoad"} -> "Performance"
              [] OTHER -> old_state
      [] old_state = "Powersave" ->
            CASE e = "PowerInPlug" -> "Performance"
              [] e \in {"PowerUnPlug", "LowBattery"} -> "Powersave"
              [] OTHER -> old_state

\* ------------------------------------------------------------------------
\* Reads (battery.rs, cpu.rs)
\* ------------------------------------------------------------------------

\* from_string taking every content other than "1" for DisCharging
ChargingStatus_from_string_ElseDisCharging(s) ==
    IF s = "1" THEN "Charging" ELSE "DisCharging"

\* ChargingStatus::from_string (battery.rs 51-59)
ChargingStatus_from_string(s) ==
    CASE s = "1" -> "Charging"
      [] s = "0" -> "DisCharging"
      [] OTHER -> "Unknown"

\* BatteryStates::read_charging_status (battery.rs 167-171): the decoded
\* content of the online file; meaningful when the read is "ok"
read_charging_status(r) == ChargingStatus_from_string(r.v)

\* CpuStates::read_cpu_boost (cpu.rs 297-304): val == 1
read_cpu_boost(r) == r.v = "1"

\* ------------------------------------------------------------------------
\* Event::periodic_check (events.rs 56-80)
\*   smp.cap, smp.online, smp.boost are what the three reads return, in
\*   program order. The result is the event returned, or "Err" when a read
\*   fails (the ? operator), with the number of reads made before returning.
\* ------------------------------------------------------------------------
Classified(ev, reads) == [ev |-> ev, reads |-> reads]

\* faulty variant: the HighCpuLoad test lacks !discharging
periodic_check_HighLoadOnBattery(smp, cpu_load) ==
    IF smp.cap.st # "ok" THEN Classified("Err", 1)
    ELSE IF smp.cap.v <= LOW_BATTERY THEN Classified("LowBattery", 1)
    ELSE IF smp.online.st # "ok" THEN Classified("Err", 2)
    ELSE IF smp.boost.st # "ok" THEN Classified("Err", 3)
    ELSE LET discharging == read_charging_status(smp.online) = "DisCharging"
             boost == read_cpu_boost(smp.boost)
             high_cpu_load == cpu_load >= HIGH_CPU_LOAD
             low_cpu_load == cpu_load < LOW_CPU_LOAD
         IN  IF high_cpu_load /\ ~boost THEN Classified("HighCpuLoad", 3)
             ELSE IF low_cpu_load /\ ~discharging /\ boost THEN Classified("LowCpuLoad", 3)
             ELSE IF discharging THEN Classified("PowerUnPlug", 3)
             ELSE Classified("PowerInPlug", 3)

\* faulty variant: the low-battery test is < 20 instead of <= 20
periodic_check_StrictLowBattery(smp, cpu_load) ==
    IF smp.cap.st # "ok" THEN Classified("Err", 1)
    ELSE IF smp.cap.v < LOW_BATTERY THEN Classified("LowBattery", 1)
    ELSE IF smp.online.st # "ok" THEN Classified("Err", 2)
    ELSE IF smp.boost.st # "ok" THEN Classified("Err", 3)
    ELSE LET discharging == read_charging_status(smp.online) = "DisCharging"
             boost == read_cpu_boost(smp.boost)
             high_cpu_load == cpu_load >= HIGH_CPU_LOAD
             low_cpu_load == cpu_load < LOW_CPU_LOAD
         IN  IF high_cpu_load /\ ~discharging /\ ~boost THEN Classified("HighCpuLoad", 3)
             ELSE IF low_cpu_load /\ ~discharging /\ boost THEN Classified("LowCpuLoad", 3)
             ELSE IF discharging THEN Classified("PowerUnPlug", 3)
             ELSE Classified("PowerInPlug", 3)

\* faulty variant: the HighCpuLoad test lacks !boost
periodic_check_IgnoreBoost(smp, cpu_load) ==
    IF smp.cap.st # "ok" THEN Classified("Err", 1)
    ELSE IF smp.cap.v <= LOW_BATTERY THEN Classified("LowBattery", 1)
    ELSE IF smp.online.st # "ok" THEN Classified("Err", 2)
    ELSE IF smp.boost.st # "ok" THEN Classified("Err", 3)
    ELSE LET discharging == read_charging_status(smp.online) = "DisCharging"
             boost == read_cpu_boost(smp.boost)
             high_cpu_load == cpu_load >= HIGH_CPU_LOAD
             low_cpu_load == cpu_load < LOW_CPU_LOAD
         IN  IF high_cpu_load /\ ~discharging THEN Classified("HighCpuLoad", 3)
             ELSE IF low_cpu_load /\ ~discharging /\ boost THEN Classified("LowCpuLoad", 3)
             ELSE IF discharging THEN Classified("PowerUnPlug", 3)
             ELSE Classified("PowerInPlug", 3)

\* faulty variant: the low-load test is <= 30 instead of < 30
periodic_check_LowLoadInclusive(smp, cpu_load) ==
    IF smp.cap.st # "ok" THEN Classified("Err", 1)
    ELSE IF smp.cap.v <= LOW_BATTERY THEN Classified("LowBattery", 1)
    ELSE IF smp.online.st # "ok" THEN Classified("Err", 2)
    ELSE IF smp.boost.st # "ok" THEN Classified("Err", 3)
    ELSE LET discharging == read_charging_status(smp.online) = "DisCharging"
             boost == read_cpu_boost(smp.boost)
             high_cpu_load == cpu_load >= HIGH_CPU_LOAD
             low_cpu_load == cpu_load <= LOW_CPU_LOAD
         IN  IF high_cpu_load /\ ~discharging /\ ~boost THEN Classified("HighCpuLoad", 3)
             ELSE IF low_cpu_load /\ ~discharging /\ boost THEN Classified("LowCpuLoad", 3)
             ELSE IF discharging THEN Classified("PowerUnPlug", 3)
             ELSE Classified("PowerInPlug", 3)

\* Event::periodic_check (events.rs 56-80)
periodic_check(smp, cpu_load) ==
    IF smp.cap.st # "ok" THEN Classified("Err", 1)
    ELSE IF smp.cap.v <= LOW_BATTERY THEN Classified("LowBattery", 1)
    ELSE IF smp.online.st # "ok" THEN Classified("Err", 2)
    ELSE IF smp.boost.st # "ok" THEN Classified("Err", 3)
    ELSE LET discharging == read_charging_status(smp.online) = "DisCharging"
             boost == read_cpu_boost(smp.boost)
             high_cpu_load == cpu_load >= HIGH_CPU_LOAD
             low_cpu_load == cpu_load < LOW_CPU_LOAD
         IN  IF high_cpu_load /\ ~discharging /\ ~boost THEN Classified("HighCpuLoad", 3)
             ELSE IF low_cpu_load /\ ~discharging /\ boost THEN Classified("LowCpuLoad", 3)
             ELSE IF discharging THEN Classified("PowerUnPlug", 3)
             ELSE Classified("PowerInPlug", 3)

\* what the four files return when read during one handle_event call
Samples == [load : LoadReads, cap : CapacityReads, online : OnlineReads, boost : BoostReads]

NoSample == [load |-> UnreadInt, cap |-> UnreadInt, online |-> UnreadStr, boost |-> UnreadStr]

\* the reads of a call that made only the CPU-load read and the first
\* `reads` reads of periodic_check
Observed(smp, reads) ==
    [load |-> smp.load,
     cap |-> IF reads >= 1 THEN smp.cap ELSE UnreadInt,
     online |-> IF reads >= 2 THEN smp.online ELSE UnreadStr,
     boost |-> IF reads >= 3 THEN smp.boost ELSE UnreadStr]

\* ------------------------------------------------------------------------
\* Control writes (cpu.rs)
\* ------------------------------------------------------------------------

\* ScalingGoverner::PERFORMANCE / POWERSAVE (cpu.rs 24-25, 256-260)
GovernerToken(g) ==
    CASE g = "Performance" -> "performance"
      [] g = "Powersave" -> "powersave"

\* EPP::DEFAULT .. EPP::POWER (cpu.rs 47-51, 281-288)
EppToken(e) ==
    CASE e = "EDefault" -> "default"
      [] e = "Performance" -> "performance"
      [] e = "BalancePerformance" -> "balance_performance"
      [] e = "BalancePower" -> "balance_power"
      [] e = "Power" -> "power"

\* the result of a writer: the files after it, the set_value calls it made
\* in order, and whether it returned Ok
WriteResult(files, log, ok) == [files |-> files, log |-> log, ok |-> ok]

\* for fd in &self.<ctl> { fd.borrow_mut().set_value(write)?; }
\* (cpu.rs 262-264, 290-292). failAt is the core whose set_value returns
\* Err (no core when failAt is not a core): the loop returns there, the
\* cores after it are not written. A rejected write leaves the kernel
\* attribute as it was.
WriteLoop(ctl, files, token, failAt) ==
    LET last == IF failAt \in Cores THEN failAt ELSE NumCores
    IN  WriteResult(
          [i \in Cores |-> IF i <= last /\ i # failAt THEN token ELSE files[i]],
          [i \in 1..last |-> [ctl |-> ctl, core |-> i, val |-> token, ok |-> i # failAt]],
          failAt \notin Cores)

\* CpuStates::set_scaling_governer (cpu.rs 252-267)
set_scaling_governer(files, scaling_governer, failAt) ==
    IF scaling_governer \notin {"Powersave", "Performance"}
    THEN WriteResult(files, <<>>, FALSE)
    ELSE WriteLoop("governor", files, GovernerToken(scaling_governer), failAt)

\* CpuStates::set_epp (cpu.rs 280-295)
set_epp(files, e, failAt) ==
    IF e \notin {"EDefault", "Performance", "BalancePerformance", "BalancePower", "Power"}
    THEN WriteResult(files, <<>>, FALSE)
    ELSE WriteLoop("epp", files, EppToken(e), failAt)

\* ------------------------------------------------------------------------
\* Mode application (system_state.rs 171-188)
\*   failAt numbers the set_value calls a complete application makes:
\*   1..NumCores the governor files, NumCores+1..2*NumCores the EPP files;
\*   0 when no write fails
\* ------------------------------------------------------------------------
FailPoints == 0..(2 * NumCores)

ModeResult(g, e, log, res) == [gov |-> g, epp |-> e, log |-> log, res |-> res]

\* self.cpu_states.set_scaling_governer(g)?; self.cpu_states.set_epp(e)?; Ok(())
SetGovernerThenEpp(g, e, failAt) ==
    LET r1 == set_scaling_governer(gov, g, failAt)
        r2 == set_epp(epp, e, failAt - NumCores)
    IN  IF ~r1.ok THEN ModeResult(r1.files, epp, r1.log, "Err")
        ELSE ModeResult(r1.files, r2.files, r1.log \o r2.log,
                        IF r2.ok THEN "Ok" ELSE "Err")

\* set_powersave_mode writing EPP::Power instead of EPP::BalancePower
set_powersave_mode_EppPower(failAt) == SetGovernerThenEpp("Powersave", "Power", failAt)

\* SystemState::set_powersave_mode (system_state.rs 171-176)
set_powersave_mode(failAt) == SetGovernerThenEpp("Powersave", "BalancePower", failAt)

\* set_performance_mode without the DisCharging guard
set_performance_mode_NoGuard(g, failAt) ==
    IF g.st # "ok" THEN ModeResult(gov, epp, <<>>, "Err")
    ELSE SetGovernerThenEpp("Performance", "Performance", failAt)

\* SystemState::set_performance_mode (system_state.rs 178-188); g is the
\* read of the charging status the guard makes
set_performance_mode(g, failAt) ==
    IF g.st # "ok" THEN ModeResult(gov, epp, <<>>, "Err")
    ELSE IF read_charging_status(g) = "DisCharging" THEN ModeResult(gov, epp, <<>>, "Ok")
    ELSE SetGovernerThenEpp("Performance", "Performance", failAt)

\* SystemState::set_balanced_mode (called at events.rs 100): a governor and
\* an EPP written through the same two setters
BalancedProfiles ==
    [governer : {"Powersave", "Performance"},
     epp : {"BalancePerformance", "BalancePower"}]

set_balanced_mode(profile, failAt) ==
    SetGovernerThenEpp(profile.governer, profile.epp, failAt)

\* the state a charging status read at startup gives (SystemState.state)
InitialState(cs) == IF cs = "Charging" THEN "Performance" ELSE "Powersave"

\* ------------------------------------------------------------------------
\* Initial state: SystemState::init() has succeeded
\* ------------------------------------------------------------------------
InitialGoverners == {"powersave", "performance"}
InitialEpps == {"balance_performance", "performance"}

Init ==
    /\ \E c \in OnlineContents :
         /\ state = InitialState(ChargingStatus_from_string(c))
         /\ sample = [NoSample EXCEPT !.online = Rd(c)]
    /\ pc = "post_init"
    /\ event = "none"
    /\ classified = "none"
    /\ prevEvent = "none"
    /\ applied = 0
    /\ oldState = state
    /\ guard = UnreadStr
    /\ boostReq = FALSE
    /\ \E g \in InitialGoverners : gov = [i \in Cores |-> g]
    /\ \E e \in InitialEpps : epp = [i \in Cores |-> e]
    /\ writes = <<>>
    /\ result = "none"
    /\ PartsIdle

\* main: Err(..).unwrap() panics, Ok continues with the loop
AfterUnwrap(res) == IF res = "Ok" THEN "poll" ELSE "panicked"

\* the reads of the charging status set_performance_mode can make when the
\* mode applied is that of new_state: none unless it is called
GuardReads(perf) == IF perf THEN OnlineReads ELSE {UnreadStr}

\* the set_value call that can fail: none when no write is attempted
WriteFailures(attempted) == IF attempted THEN FailPoints ELSE {0}

\* post_init recording the state of the charging status it reads
PostInit_RecordsState ==
    /\ pc = "post_init"
    /\ \E r \in OnlineReads :
         LET cs == read_charging_status(r)
             perf == r.st = "ok" /\ cs = "Charging"
         IN  \E g \in GuardReads(perf) :
             \E failAt \in WriteFailures(r.st = "ok" /\ (~perf \/
                             (g.st = "ok" /\ read_charging_status(g) # "DisCharging"))) :
               LET m == IF r.st # "ok" THEN ModeResult(gov, epp, <<>>, "Err")
                        ELSE IF cs = "Charging" THEN set_performance_mode(g, failAt)
                        ELSE set_powersave_mode(failAt)
               IN  /\ sample' = [NoSample EXCEPT !.online = r]
                   /\ guard' = g
                   /\ gov' = m.gov
                   /\ epp' = m.epp
                   /\ writes' = m.log
                   /\ result' = m.res
                   /\ pc' = AfterUnwrap(m.res)
                   /\ state' = IF r.st = "ok" THEN InitialState(cs) ELSE state
    /\ UNCHANGED <<event, classified, prevEvent, applied, oldState, boostReq>>
    /\ UNCHANGED parts

\* ------------------------------------------------------------------------
\* SystemState::post_init (system_state.rs 162-169), unwrapped by main
\* ------------------------------------------------------------------------
PostInit ==
    /\ pc = "post_init"
    /\ \E r \in OnlineReads :
         LET cs == read_charging_status(r)
             perf == r.st = "ok" /\ cs = "Charging"
         IN  \E g \in GuardReads(perf) :
             \E failAt \in WriteFailures(r.st = "ok" /\ (~perf \/
                             (g.st = "ok" /\ read_charging_status(g) # "DisCharging"))) :
               LET m == IF r.st # "ok" THEN ModeResult(gov, epp, <<>>, "Err")
                        ELSE IF cs = "Charging" THEN set_performance_mode(g, failAt)
                        ELSE set_powersave_mode(failAt)
               IN  /\ sample' = [NoSample EXCEPT !.online = r]
                   /\ guard' = g
                   /\ gov' = m.gov
                   /\ epp' = m.epp
                   /\ writes' = m.log
                   /\ result' = m.res
                   /\ pc' = AfterUnwrap(m.res)
    /\ UNCHANGED <<state, event, classified, prevEvent, applied, oldState, boostReq>>
    /\ UNCHANGED parts

\* ------------------------------------------------------------------------
\* EventPoller::poll_events (events.rs 146-196): the event it returns.
\* handle_event reads neither the poller's timestamp nor its socket, so the
\* loop sees of a poll only its result: PeriodicCheck when the interval has
\* elapsed, PowerInPlug / PowerUnPlug / Unknown from the notifications, Error
\* when poll(2) fails.
\* The record of the previous operation (sample, guard, writes, result) is
\* cleared: it describes the handle_event call in progress, if any.
\* ------------------------------------------------------------------------
PollEvents ==
    /\ pc = "poll"
    /\ \E e \in PolledEvents : event' = e
    /\ pc' = "handle"
    /\ classified' = "none"
    /\ oldState' = state
    /\ sample' = NoSample
    /\ guard' = UnreadStr
    /\ boostReq' = FALSE
    /\ writes' = <<>>
    /\ result' = "none"
    /\ UNCHANGED <<state, prevEvent, applied, gov, epp>>
    /\ UNCHANGED parts

\* ------------------------------------------------------------------------
\* Event::handle_event (events.rs 82-106), unwrapped by main
\* ------------------------------------------------------------------------

\* Classify with unwrap_or(Event::PowerUnPlug)
Classify_FallbackUnplug(self, smp) ==
    LET c == periodic_check(smp, smp.load.v).ev
    IN  IF c = "Err" THEN "PowerUnPlug" ELSE c

\* Classify with unwrap_or(Event::Unknown)
Classify_FallbackUnknown(self, smp) ==
    LET c == periodic_check(smp, smp.load.v).ev
    IN  IF c = "Err" THEN "Unknown" ELSE c

\* the event handed to state_transition:
\* Self::periodic_check(system_state, cpu_load).unwrap_or(self.clone())
Classify(self, smp) ==
    LET c == periodic_check(smp, smp.load.v).ev
    IN  IF c = "Err" THEN self ELSE c

\* handle_event returns at the ? of read_cpu_load
HandleLoadReadFails(smp) ==
    /\ sample' = Observed(smp, 0)
    /\ result' = "Err"
    /\ pc' = AfterUnwrap("Err")
    /\ UNCHANGED <<state, classified, oldState, guard, boostReq, gov, epp, writes>>

\* ApplyMode applying the powersave mode also when the state has not changed
ApplyMode_AlwaysApplies(old_state, new_state, g, failAt, profile) ==
    IF new_state = "Performance" THEN set_performance_mode(g, failAt)
    ELSE IF new_state = "Powersave" THEN set_powersave_mode(failAt)
    ELSE set_balanced_mode(profile, failAt)

\* the mode handle_event applies after the transition (events.rs 92-103)
ApplyMode(old_state, new_state, g, failAt, profile) ==
    IF new_state = "Performance" THEN set_performance_mode(g, failAt)
    ELSE IF old_state = new_state THEN ModeResult(gov, epp, <<>>, "Ok")
    ELSE IF new_state = "Powersave" THEN set_powersave_mode(failAt)
    ELSE set_balanced_mode(profile, failAt)

HandleClassified(smp) ==
    LET ev == Classify(event, smp)
        old_state == state
        new_state == state_transition(ev, old_state)
        perf == new_state = "Performance"
    IN  \E g \in GuardReads(perf) :
        \E failAt \in WriteFailures(
               IF perf THEN g.st = "ok" /\ read_charging_status(g) # "DisCharging"
               ELSE old_state # new_state) :
        \E profile \in IF new_state = "Balanced" /\ old_state # new_state
                       THEN BalancedProfiles
                       ELSE {CHOOSE p \in BalancedProfiles : TRUE} :
          LET m == ApplyMode(old_state, new_state, g, failAt, profile)
          IN  /\ sample' = Observed(smp, periodic_check(smp, smp.load.v).reads)
              /\ classified' = ev
              /\ oldState' = old_state
              /\ state' = new_state
              /\ guard' = g
              /\ boostReq' = (perf /\ smp.load.v >= HIGH_CPU_LOAD)
              /\ gov' = m.gov
              /\ epp' = m.epp
              /\ writes' = m.log
              /\ result' = m.res
              /\ pc' = AfterUnwrap(m.res)

HandleEvent ==
    /\ pc = "handle"
    /\ \E smp \in Samples :
         IF smp.load.st # "ok" THEN HandleLoadReadFails(smp) ELSE HandleClassified(smp)
    /\ UNCHANGED <<event, prevEvent, applied>>
    /\ UNCHANGED parts

Next == PostInit \/ PollEvents \/ HandleEvent

Spec == Init /\ [][Next]_vars

\* ------------------------------------------------------------------------
\* SpecFn: Event::state_transition on its own, from every state and with
\* every event, MaxApply times in a row
\* ------------------------------------------------------------------------
InitFn ==
    /\ state \in States
    /\ pc = "fn"
    /\ event = "none"
    /\ classified = "none"
    /\ prevEvent = "none"
    /\ applied = 0
    /\ oldState = state
    /\ sample = NoSample
    /\ guard = UnreadStr
    /\ boostReq = FALSE
    /\ gov = [i \in Cores |-> "powersave"]
    /\ epp = [i \in Cores |-> "balance_power"]
    /\ writes = <<>>
    /\ result = "none"
    /\ PartsIdle

\* self.state_transition(system_state) with self = e
ApplyTransition ==
    /\ pc = "fn"
    /\ applied < MaxApply
    /\ \E e \in Events :
         /\ prevEvent' = classified
         /\ classified' = e
         /\ oldState' = state
         /\ state' = state_transition(e, state)
    /\ applied' = applied + 1
    /\ UNCHANGED <<pc, event, sample, guard, boostReq, gov, epp, writes, result>>
    /\ UNCHANGED parts

NextFn == ApplyTransition

SpecFn == InitFn /\ [][NextFn]_vars

\* ------------------------------------------------------------------------
\* The specifications below exercise one component each; the control loop
\* is not running in them
\* ------------------------------------------------------------------------
LoopIdle ==
    /\ state = "Powersave"
    /\ pc = "idle"
    /\ event = "none"
    /\ classified = "none"
    /\ prevEvent = "none"
    /\ applied = 0
    /\ oldState = state
    /\ sample = NoSample
    /\ guard = UnreadStr
    /\ boostReq = FALSE
    /\ gov = [i \in Cores |-> "powersave"]
    /\ epp = [i \in Cores |-> "balance_power"]
    /\ writes = <<>>
    /\ result = "none"

\* ------------------------------------------------------------------------
\* SpecGov: CpuStates::read_scaling_governer and CpuStates::read_epp over
\* 1..NumCores cores (cpu.rs 235-250, 269-278)
\* ------------------------------------------------------------------------

\* ScalingGoverner::from_string (cpu.rs 27-33)
ScalingGoverner_from_string(s) ==
    CASE s = "performance" -> "Performance"
      [] s = "powersave" -> "Powersave"
      [] OTHER -> "Unknown"

\* EPP::from_string (cpu.rs 53-62)
EPP_from_string(s) ==
    CASE s = "default" -> "EDefault"
      [] s = "performance" -> "Performance"
      [] s = "balance_performance" -> "BalancePerformance"
      [] s = "balance_power" -> "BalancePower"
      [] s = "power" -> "Power"
      [] OTHER -> "Unknown"

\* what a scaling_governor / energy_performance_preference file can hold
GovernerContents == {"performance", "powersave", "schedutil", "ondemand"}
EppContents == {"default", "performance", "balance_performance", "balance_power",
                "power", "balance"}

\* the result of a read over the cores: Ok(v), Err(..) returned to the
\* caller, or a panic of the calling thread
ReadOk(v) == [st |-> "Ok", v |-> v]
ReadErr == [st |-> "Err", v |-> "none"]
ReadPanic == [st |-> "Panic", v |-> "none"]
ReadPending == [st |-> "pending", v |-> "none"]

\* the value of core 0 is returned whatever the other cores hold
read_scaling_governer_FirstWins(files) ==
    IF files[1].st # "ok" THEN ReadErr
    ELSE LET g == ScalingGoverner_from_string(files[1].v)
         IN  IF g = "Unknown" THEN ReadPanic ELSE ReadOk(g)

\* CpuStates::read_scaling_governer (cpu.rs 235-250): files[i] is what
\* read_value returns on core i-1. The cores after core 0 are visited in
\* order; the first one whose read fails returns Err (the ? operator), the
\* first one whose value differs fails assert_eq!.
read_scaling_governer(files) ==
    IF files[1].st # "ok" THEN ReadErr
    ELSE LET g == ScalingGoverner_from_string(files[1].v)
             stop == {i \in 2..Len(files) :
                        files[i].st # "ok" \/ ScalingGoverner_from_string(files[i].v) # g}
         IN  IF g = "Unknown" THEN ReadPanic
             ELSE IF stop = {} THEN ReadOk(g)
             ELSE LET i == CHOOSE j \in stop : \A k \in stop : j <= k
                  IN  IF files[i].st # "ok" THEN ReadErr ELSE ReadPanic

\* CpuStates::read_epp (cpu.rs 269-278)
read_epp(files) ==
    IF files[1].st # "ok" THEN ReadErr
    ELSE LET g == EPP_from_string(files[1].v)
             stop == {i \in 2..Len(files) :
                        files[i].st # "ok" \/ EPP_from_string(files[i].v) # g}
         IN  IF g = "Unknown" THEN ReadPanic
             ELSE IF stop = {} THEN ReadOk(g)
             ELSE LET i == CHOOSE j \in stop : \A k \in stop : j <= k
                  IN  IF files[i].st # "ok" THEN ReadErr ELSE ReadPanic

\* the reads of the files of n cores
CoreReads(contents, n) == [1..n -> {Rd(c) : c \in contents} \cup {ErrStr}]

InitGov ==
    /\ LoopIdle
    /\ boot = NoBoot
    /\ fd = NoFd
    /\ poller = NoPoller
    /\ \E n \in 1..NumCores :
         \/ \E f \in CoreReads(GovernerContents, n) :
               calc = [fn |-> "read_scaling_governer", files |-> f, out |-> ReadPending]
         \/ \E f \in CoreReads(EppContents, n) :
               calc = [fn |-> "read_epp", files |-> f, out |-> ReadPending]

ReadScalingGoverner ==
    /\ calc.fn = "read_scaling_governer"
    /\ calc.out = ReadPending
    /\ calc' = [calc EXCEPT !.out = read_scaling_governer(calc.files)]
    /\ UNCHANGED <<loop, boot, fd, poller>>

ReadEpp ==
    /\ calc.fn = "read_epp"
    /\ calc.out = ReadPending
    /\ calc' = [calc EXCEPT !.out = read_epp(calc.files)]
    /\ UNCHANGED <<loop, boot, fd, poller>>

NextGov == ReadScalingGoverner \/ ReadEpp

SpecGov == InitGov /\ [][NextGov]_vars

\* ------------------------------------------------------------------------
\* SpecFd: one PersFd (utils.rs 28-73) on a regular file. A file is the
\* sequence of its characters, the offset is the position of the handle.
\* ------------------------------------------------------------------------

\* char::is_whitespace, for the characters of the model
IsSpace(c) == c \in {" ", "\n", "\t"}

RECURSIVE TrimStart(_)
TrimStart(str) ==
    IF str # <<>> /\ IsSpace(Head(str)) THEN TrimStart(Tail(str)) ELSE str

RECURSIVE TrimEnd(_)
TrimEnd(str) ==
    IF str # <<>> /\ IsSpace(str[Len(str)])
    THEN TrimEnd(SubSeq(str, 1, Len(str) - 1)) ELSE str

\* str::trim
Trim(str) == TrimEnd(TrimStart(str))

\* read_to_string: the characters from the offset to the end of the file
ReadToEnd(file, offset) == SubSeq(file, offset + 1, Len(file))

\* write_all at the offset: the characters are overwritten or appended, a
\* gap between the end of the file and the offset reads as NUL
WriteAt(file, offset, bytes) ==
    LET end == offset + Len(bytes)
        len == IF Len(file) > end THEN Len(file) ELSE end
    IN  [i \in 1..len |->
            IF i > offset /\ i <= end THEN bytes[i - offset]
            ELSE IF i <= Len(file) THEN file[i] ELSE "NUL"]

\* format!("{}\n", value)
WithNewline(value) == value \o <<"\n">>

\* the result of a call: the file and the offset after it, and what it
\* returns
FdResult(file, offset, st, v) ==
    [file |-> file, offset |-> offset, ret |-> [st |-> st, v |-> v]]

\* PersFd::read_value (utils.rs 45-56). failAt is the call that returns an
\* OS error: 1 the seek, 2 read_to_string, which has then read up to
\* `partial`; 0 none.
read_value(f, failAt, partial) ==
    IF failAt = 1 THEN FdResult(f.file, f.offset, "ReadErr", <<>>)
    ELSE IF failAt = 2 THEN FdResult(f.file, partial, "ReadErr", <<>>)
    ELSE FdResult(f.file, Len(f.file), "Ok", Trim(ReadToEnd(f.file, 0)))

\* set_value without the check of self.write: on a handle opened without
\* write access the seek succeeds and set_len fails
set_value_NoPermCheck(f, value, failAt, partial) ==
    LET bytes == WithNewline(value) IN
    IF failAt = 1 THEN FdResult(f.file, f.offset, "WriteErr", <<>>)
    ELSE IF failAt = 2 \/ ~f.write THEN FdResult(f.file, 0, "WriteErr", <<>>)
    ELSE IF failAt = 3
         THEN FdResult(WriteAt(<<>>, 0, SubSeq(bytes, 1, partial)), partial, "WriteErr", <<>>)
    ELSE FdResult(WriteAt(<<>>, 0, bytes), Len(bytes), "Ok", <<>>)

\* set_value without set_len(0)
set_value_NoTruncate(f, value, failAt, partial) ==
    LET bytes == WithNewline(value) IN
    IF ~f.write THEN FdResult(f.file, f.offset, "InvalidFilePerms", <<>>)
    ELSE IF failAt = 1 THEN FdResult(f.file, f.offset, "WriteErr", <<>>)
    ELSE IF failAt = 2 THEN FdResult(f.file, 0, "WriteErr", <<>>)
    ELSE IF failAt = 3
         THEN FdResult(WriteAt(f.file, 0, SubSeq(bytes, 1, partial)), partial, "WriteErr", <<>>)
    ELSE FdResult(WriteAt(f.file, 0, bytes), Len(bytes), "Ok", <<>>)

\* PersFd::set_value (utils.rs 58-73). failAt is the call that returns an
\* OS error: 1 the seek, 2 set_len, 3 write_all, which has then written
\* `partial` characters; 0 none. File::flush does nothing and returns Ok.
set_value(f, value, failAt, partial) ==
    LET bytes == WithNewline(value) IN
    IF ~f.write THEN FdResult(f.file, f.offset, "InvalidFilePerms", <<>>)
    ELSE IF failAt = 1 THEN FdResult(f.file, f.offset, "WriteErr", <<>>)
    ELSE IF failAt = 2 THEN FdResult(f.file, 0, "WriteErr", <<>>)
    ELSE IF failAt = 3
         THEN FdResult(WriteAt(<<>>, 0, SubSeq(bytes, 1, partial)), partial, "WriteErr", <<>>)
    ELSE FdResult(WriteAt(<<>>, 0, bytes), Len(bytes), "Ok", <<>>)

\* the values written
WriteValues == {<<>>, <<"a">>, <<" ", "a">>, <<"a", "b", "\n">>, <<"a", " ", "b">>}

\* what the file holds when the handle is opened
PriorContents ==
    {<<>>, <<"b", "\n">>, <<" ", "b">>, <<"b", "a", "b", "a", "\n">>, <<"\n", "b", "\n", "\n">>}

InitFd ==
    /\ LoopIdle
    /\ boot = NoBoot
    /\ poller = NoPoller
    /\ calc = NoCalc
    /\ \E file \in PriorContents, w \in BOOLEAN :
       \E offset \in 0..Len(file) :
         fd = [NoFd EXCEPT !.file = file, !.offset = offset, !.write = w]

\* the call that has just returned, as the next call's prev
LastCall == [op |-> fd.op, arg |-> fd.arg, ok |-> fd.ret.st = "Ok", was |-> fd.was]

\* where a failing call can stop: partial matters for one call only
Partials(failAt, at, len) == IF failAt = at THEN 0..len ELSE {0}

ReadValue ==
    /\ \E failAt \in 0..2 :
       \E partial \in Partials(failAt, 2, Len(fd.file)) :
         LET r == read_value(fd, failAt, partial)
         IN  fd' = [fd EXCEPT !.file = r.file, !.offset = r.offset, !.op = "read_value",
                              !.arg = <<>>, !.ret = r.ret, !.was = Len(fd.file),
                              !.prev = LastCall]
    /\ UNCHANGED <<loop, boot, poller, calc>>

SetValue ==
    /\ \E value \in WriteValues :
       \E failAt \in 0..3 :
       \E partial \in Partials(failAt, 3, Len(value)) :
         LET r == set_value(fd, value, failAt, partial)
         IN  fd' = [fd EXCEPT !.file = r.file, !.offset = r.offset, !.op = "set_value",
                              !.arg = value, !.ret = r.ret, !.was = Len(fd.file),
                              !.prev = LastCall]
    /\ UNCHANGED <<loop, boot, poller, calc>>

NextFd == ReadValue \/ SetValue

SpecFd == InitFd /\ [][NextFd]_vars

\* ------------------------------------------------------------------------
\* SpecLoad: read_cpu_load of CpuStates (cpu.rs 357-395) and of SystemFds
\* (fds.rs 411-473) on two samples of the aggregate line of /proc/stat.
\* A sample is the sequence of the integer fields after the "cpu" label:
\* user, nice, system, idle, iowait, ..; st = "err" when the read or the
\* parse of a field fails. The counters stay far below 2^63.
\* ------------------------------------------------------------------------
RECURSIVE Sum(_)
Sum(fields) == IF fields = <<>> THEN 0 ELSE Head(fields) + Sum(Tail(fields))

\* prev[3] + prev.get(4).unwrap_or(&0)
IdleOf(fields) == fields[4] + (IF Len(fields) > 4 THEN fields[5] ELSE 0)

\* i64::max
Max(a, b) == IF a >= b THEN a ELSE b

\* the f64 (busy_delta / total_delta) * 100.0 as an exact fraction, or the
\* error returned
LoadOk(busy_delta, total_delta) ==
    [st |-> "Ok", num |-> busy_delta * 100, den |-> total_delta]
LoadErr(e) == [st |-> e, num |-> 0, den |-> 1]
LoadPending == [st |-> "pending", num |-> 0, den |-> 1]

\* read_cpu_load without the floor of 1 on total_delta
read_cpu_load_NoFloor(prev, now) ==
    IF prev.st # "ok" THEN LoadErr("ReadErr")
    ELSE IF Len(prev.v) < 4 THEN LoadErr("InvalidProcStat")
    ELSE IF Len(prev.v) > 10 THEN LoadErr("GenericError")
    ELSE IF now.st # "ok" THEN LoadErr("ReadErr")
    ELSE IF Len(now.v) < 4 THEN LoadErr("InvalidProcStat")
    ELSE IF Len(now.v) > 10 THEN LoadErr("GenericError")
    ELSE LET total_delta == Sum(now.v) - Sum(prev.v)
             idle_delta == IdleOf(now.v) - IdleOf(prev.v)
             busy_delta == Max(total_delta - idle_delta, 0)
         IN  LoadOk(busy_delta, total_delta)

\* CpuStates::read_cpu_load (cpu.rs 357-395)
read_cpu_load(prev, now) ==
    IF prev.st # "ok" THEN LoadErr("ReadErr")
    ELSE IF Len(prev.v) < 4 THEN LoadErr("InvalidProcStat")
    ELSE IF Len(prev.v) > 10 THEN LoadErr("GenericError")
    ELSE IF now.st # "ok" THEN LoadErr("ReadErr")
    ELSE IF Len(now.v) < 4 THEN LoadErr("InvalidProcStat")
    ELSE IF Len(now.v) > 10 THEN LoadErr("GenericError")
    ELSE LET total_delta == Max(Sum(now.v) - Sum(prev.v), 1)
             idle_delta == IdleOf(now.v) - IdleOf(prev.v)
             busy_delta == Max(total_delta - idle_delta, 0)
         IN  LoadOk(busy_delta, total_delta)

\* SystemFds::read_cpu_load (fds.rs 411-473): parts counts the label, and
\* there is no upper limit on the number of fields
SystemFds_read_cpu_load(prev, now) ==
    IF prev.st # "ok" THEN LoadErr("ReadErr")
    ELSE IF Len(prev.v) + 1 < 5 THEN LoadErr("InvalidData")
    ELSE IF now.st # "ok" THEN LoadErr("ReadErr")
    ELSE IF Len(now.v) + 1 < 5 THEN LoadErr("InvalidData")
    ELSE LET total_delta == Max(Sum(now.v) - Sum(prev.v), 1)
             idle_delta == IdleOf(now.v) - IdleOf(prev.v)
         IN  IF total_delta > 0
             THEN LET busy_delta == total_delta - idle_delta
                  IN  LoadOk(Max(busy_delta, 0), total_delta)
             ELSE LoadOk(0, 1)

\* counter values of the samples
TickSamples == {0, 1, 5}

\* the samples: four fields (no iowait), five fields, three fields (too
\* few), eleven fields (too many for cpu.rs), and a failed read
ProcStatSamples ==
    {Rd(<<u, 0, y, i>>) : u \in TickSamples, y \in {0, 1}, i \in TickSamples}
    \cup {Rd(<<u, 0, 1, i, w>>) : u \in TickSamples, i \in TickSamples, w \in {0, 5}}
    \cup {Rd(<<1, 0, 1>>), Rd(<<1, 0, 1, 5, 1, 0, 0, 0, 0, 0, 1>>)}
    \cup {[st |-> "err", v |-> <<>>]}

InitLoad ==
    /\ LoopIdle
    /\ boot = NoBoot
    /\ fd = NoFd
    /\ poller = NoPoller
    /\ \E fn \in {"read_cpu_load", "SystemFds_read_cpu_load"} :
       \E prev \in ProcStatSamples, now \in ProcStatSamples :
         calc = [fn |-> fn, prev |-> prev, now |-> now, out |-> LoadPending]

ReadCpuLoad ==
    /\ calc.fn = "read_cpu_load"
    /\ calc.out = LoadPending
    /\ calc' = [calc EXCEPT !.out = read_cpu_load(calc.prev, calc.now)]
    /\ UNCHANGED <<loop, boot, fd, poller>>

SystemFdsReadCpuLoad ==
    /\ calc.fn = "SystemFds_read_cpu_load"
    /\ calc.out = LoadPending
    /\ calc' = [calc EXCEPT !.out = SystemFds_read_cpu_load(calc.prev, calc.now)]
    /\ UNCHANGED <<loop, boot, fd, poller>>

NextLoad == ReadCpuLoad \/ SystemFdsReadCpuLoad

SpecLoad == InitLoad /\ [][NextLoad]_vars

\* ------------------------------------------------------------------------
\* SpecPower: read_cpu_power_draw of CpuStates (cpu.rs 397-423) and of
\* SystemFds (fds.rs 475-494) on two readings of the energy counter.
\* The counter is a u64; the model gives it CounterModulus values, so a
\* subtraction that wraps is taken modulo CounterModulus instead of 2^64.
\* ------------------------------------------------------------------------
CounterModulus == 16

\* readings of energy_uj, and a read or parse that fails
EnergySamples == {0, 3, 5, 9}
EnergyReads == {Rd(v) : v \in EnergySamples} \cup {ErrInt}

\* end_time.duration_since(start_time), in ms
WindowSamples == {0, 500, 501}

\* the f32 watts as an exact fraction num / den, an error returned, or a
\* panic of the calling thread
Watts(num, den) == [st |-> "Ok", num |-> num, den |-> den]
PowerErr == [st |-> "Err", num |-> 0, den |-> 1]
PowerPanic == [st |-> "Panic", num |-> 0, den |-> 1]
PowerPending == [st |-> "pending", num |-> 0, den |-> 1]

\* CpuStates::read_cpu_power_draw (cpu.rs 397-423); present is whether
\* self.cpu_power_draw is Some. It returns one result.
read_cpu_power_draw(present, start, end, time_delta_ms) ==
    IF ~present THEN {Watts(0, 1)}
    ELSE IF start.st # "ok" \/ end.st # "ok" THEN {PowerErr}
    ELSE IF end.v < start.v THEN {Watts(0, 1)}
    ELSE IF time_delta_ms <= 0 THEN {Watts(0, 1)}
    ELSE {Watts(end.v - start.v, time_delta_ms * 1000)}

\* SystemFds::read_cpu_power_draw (fds.rs 475-494): (end - start) as f32 /
\* 1_000_000.0 with no comparison of the readings. When end < start the
\* u64 subtraction overflows: a build with overflow checks panics, a build
\* without them wraps.
SystemFds_read_cpu_power_draw(start, end) ==
    IF start.st # "ok" \/ end.st # "ok" THEN {PowerErr}
    ELSE IF end.v >= start.v THEN {Watts(end.v - start.v, 1000000)}
    ELSE {PowerPanic, Watts((end.v - start.v) % CounterModulus, 1000000)}

InitPower ==
    /\ LoopIdle
    /\ boot = NoBoot
    /\ fd = NoFd
    /\ poller = NoPoller
    /\ \E start \in EnergyReads, end \in EnergyReads, ms \in WindowSamples :
         \/ \E present \in BOOLEAN :
              calc = [fn |-> "read_cpu_power_draw", present |-> present, start |-> start,
                      end |-> end, ms |-> ms, out |-> PowerPending]
         \/ calc = [fn |-> "SystemFds_read_cpu_power_draw", present |-> TRUE,
                    start |-> start, end |-> end, ms |-> ms, out |-> PowerPending]

ReadCpuPowerDraw ==
    /\ calc.fn = "read_cpu_power_draw"
    /\ calc.out = PowerPending
    /\ \E out \in read_cpu_power_draw(calc.present, calc.start, calc.end, calc.ms) :
         calc' = [calc EXCEPT !.out = out]
    /\ UNCHANGED <<loop, boot, fd, poller>>

SystemFdsReadCpuPowerDraw ==
    /\ calc.fn = "SystemFds_read_cpu_power_draw"
    /\ calc.out = PowerPending
    /\ \E out \in SystemFds_read_cpu_power_draw(calc.start, calc.end) :
         calc' = [calc EXCEPT !.out = out]
    /\ UNCHANGED <<loop, boot, fd, poller>>

NextPower == ReadCpuPowerDraw \/ SystemFdsReadCpuPowerDraw

SpecPower == InitPower /\ [][NextPower]_vars

\* ------------------------------------------------------------------------
\* SpecPoll: EventPoller::poll_events (events.rs 146-196) called in a loop
\* (rust/src/main.rs 65-69, 78-83, 86-89), with the clock and the udev
\* socket. poller.elapsed is last_periodic_check.elapsed() in seconds,
\* poller.socket the notifications received and not yet read, poller.batch
\* the notifications that were buffered when the last call returned.
\* ------------------------------------------------------------------------

\* const LOOP_DURATION: u8 (the periodic_interval, in seconds)
LOOP_DURATION == 3

\* elapsed is not counted beyond MaxElapsed, the socket buffers MaxSocket
\* notifications
MaxElapsed == 4
MaxSocket == 2

\* a udev event of the power_supply subsystem: its type, POWER_SUPPLY_NAME
\* and POWER_SUPPLY_ONLINE ("none" when the property is absent)
Notification(type, name, online) == [type |-> type, name |-> name, online |-> online]

Notifications ==
    {Notification("change", "AC", o) : o \in {"1", "0", "2", "none"}}
    \cup {Notification("change", "BAT0", "none"), Notification("add", "ADP1", "1"),
          Notification("change", "ADP1", "1"), Notification("change", "AC1", "1")}

AdapterNames == {"ACAD", "AC", "ADP1", "AC0"}

\* for event in self.socket.iter() { .. } Event::Unknown (events.rs
\* 171-195): the events are read in order up to the first change event of
\* an adapter that has the online property; those after it stay in the
\* socket
RECURSIVE Drain(_)
Drain(socket) ==
    IF socket = <<>> THEN [polled |-> "Unknown", socket |-> <<>>]
    ELSE LET n == Head(socket)
         IN  IF n.type = "change" /\ n.name \in AdapterNames /\ n.online # "none"
             THEN [polled |-> CASE n.online = "1" -> "PowerInPlug"
                                [] n.online = "0" -> "PowerUnPlug"
                                [] OTHER -> "Unknown",
                   socket |-> Tail(socket)]
             ELSE Drain(Tail(socket))

PollResult(elapsed, socket, polled) ==
    [elapsed |-> elapsed, socket |-> socket, polled |-> polled]

\* poll_events reading the notifications before it checks the interval
poll_events_NotificationsFirst(p) ==
    IF p.socket # <<>>
    THEN LET d == Drain(p.socket) IN PollResult(p.elapsed, d.socket, d.polled)
    ELSE IF p.elapsed >= LOOP_DURATION THEN PollResult(0, p.socket, "PeriodicCheck")
    ELSE PollResult(p.elapsed, <<>>, "Unknown")

\* poll_events dropping what it has not read of the buffered notifications
poll_events_DiscardRest(p) ==
    IF p.elapsed >= LOOP_DURATION THEN PollResult(0, p.socket, "PeriodicCheck")
    ELSE LET d == Drain(p.socket) IN PollResult(p.elapsed, <<>>, d.polled)

\* poll_events once libc::poll has returned >= 0 (events.rs 166-195); p is
\* the poller at that moment
poll_events(p) ==
    IF p.elapsed >= LOOP_DURATION THEN PollResult(0, p.socket, "PeriodicCheck")
    ELSE LET d == Drain(p.socket) IN PollResult(p.elapsed, d.socket, d.polled)

InitPoll ==
    /\ LoopIdle
    /\ boot = NoBoot
    /\ fd = NoFd
    /\ calc = NoCalc
    /\ poller = [elapsed |-> 0, socket |-> <<>>, batch |-> <<>>, polled |-> "none",
                 pc |-> "poll"]

\* a second passes
Tick ==
    /\ poller.pc \in {"poll", "return"}
    /\ poller.elapsed < MaxElapsed
    /\ poller' = [poller EXCEPT !.elapsed = @ + 1]
    /\ UNCHANGED <<loop, boot, fd, calc>>

\* the kernel sends a notification
Notify ==
    /\ poller.pc \in {"poll", "return"}
    /\ Len(poller.socket) < MaxSocket
    /\ \E n \in Notifications : poller' = [poller EXCEPT !.socket = Append(@, n)]
    /\ UNCHANGED <<loop, boot, fd, calc>>

\* libc::poll returns >= 0: the socket is readable, or the timeout
\* max(0, interval - elapsed) computed at the call has expired
PollReturns ==
    /\ poller.pc = "poll"
    /\ poller.socket # <<>> \/ poller.elapsed >= LOOP_DURATION
    /\ LET r == poll_events(poller)
       IN  poller' = [elapsed |-> r.elapsed, socket |-> r.socket,
                      batch |-> poller.socket, polled |-> r.polled, pc |-> "return"]
    /\ UNCHANGED <<loop, boot, fd, calc>>

\* libc::poll returns < 0: Event::Error, before the interval is checked
\* (events.rs 162-164)
PollFails ==
    /\ poller.pc = "poll"
    /\ poller' = [poller EXCEPT !.polled = "Error", !.pc = "return"]
    /\ UNCHANGED <<loop, boot, fd, calc>>

\* the caller takes the event and calls poll_events again
CallAgain ==
    /\ poller.pc = "return"
    /\ poller' = [poller EXCEPT !.polled = "none", !.batch = <<>>, !.pc = "poll"]
    /\ UNCHANGED <<loop, boot, fd, calc>>

NextPoll == Tick \/ Notify \/ PollReturns \/ PollFails \/ CallAgain

\* time passes, the caller loops, and libc::poll does not fail forever
SpecPoll ==
    /\ InitPoll /\ [][NextPoll]_vars
    /\ WF_vars(Tick) /\ WF_vars(CallAgain) /\ SF_vars(PollReturns)

\* ------------------------------------------------------------------------
\* SpecBoot: the startup of main (rust/src/main.rs 26-56): SystemState::init
\* with the discovery of the AC adapter (battery.rs 121-165), post_init, the
\* platform checks, the configuration (utils.rs 136-182), and the reads of
\* the charging status made afterwards.
\* ------------------------------------------------------------------------

\* the entries /sys/class/power_supply can have
SupplyNames == {"AC", "ACAD", "ADP1", "AC0", "AC1", "BAT0"}

\* the characters of a name
NameChars(name) ==
    CASE name = "AC" -> <<"A", "C">>
      [] name = "ACAD" -> <<"A", "C", "A", "D">>
      [] name = "ADP1" -> <<"A", "D", "P", "1">>
      [] name = "AC0" -> <<"A", "C", "0">>
      [] name = "AC1" -> <<"A", "C", "1">>
      [] name = "BAT0" -> <<"B", "A", "T", "0">>

\* str::starts_with
starts_with(name, prefix) ==
    LET n == NameChars(name)
        q == NameChars(prefix)
    IN  Len(q) <= Len(n) /\ SubSeq(n, 1, Len(q)) = q

\* the directory has at most MaxEntries entries
MaxEntries == 2

\* an entry of the directory: its name and whether <entry>/online exists
SupplyEntries == [name : SupplyNames, online : BOOLEAN]

Directories == UNION {[1..n -> SupplyEntries] : n \in 0..MaxEntries}

\* PersFd::new (utils.rs 35-43): open("") fails whatever the system
PersFd_new(path, opens) ==
    IF path = 0 \/ ~opens THEN [st |-> "Err", adapter |-> 0]
    ELSE [st |-> "Ok", adapter |-> path]

\* BatteryStates::load_charging_status (battery.rs 146-165): the entries are
\* visited in the order of the directory; the path of an entry is its
\* index, 0 stands for the empty path of the fallback
load_charging_status(entries, opens) ==
    LET hits == {i \in DOMAIN entries :
                    /\ starts_with(entries[i].name, "AC") \/ starts_with(entries[i].name, "ACAD")
                    /\ entries[i].online}
    IN  IF hits = {} THEN PersFd_new(0, opens)
        ELSE PersFd_new(CHOOSE i \in hits : \A j \in hits : i <= j, opens)

\* values of start_threshold / stop_threshold in the configuration file
ThresholdSamples == {40, 80}

\* what get_config_path and Config::parse give: an error of one of them, or
\* a Config (both thresholds are Some)
Configs ==
    {[st |-> "PathErr", start |-> 0, stop |-> 0], [st |-> "ParseErr", start |-> 0, stop |-> 0]}
    \cup {[st |-> "Ok", start |-> a, stop |-> b] : a \in ThresholdSamples, b \in ThresholdSamples}

ConfigResult(start, stop, log, res) ==
    [start |-> start, stop |-> stop, log |-> log, res |-> res]

\* Config::apply without the test of the ACPI type
Config_apply_NoAcpiCheck(acpi_type, cfg, start, stop, failAt) ==
    IF failAt = 1 THEN ConfigResult(start, stop, <<"start">>, "ApplyErr")
    ELSE IF failAt = 2 THEN ConfigResult(cfg.start, stop, <<"start", "stop">>, "ApplyErr")
    ELSE ConfigResult(cfg.start, cfg.stop, <<"start", "stop">>, "Ok")

\* Config::apply (system_state.rs 49-69, utils.rs 136-158). start and stop
\* are the threshold files; failAt is the set_value that fails: 1 the start
\* threshold, 2 the stop threshold, 0 none
Config_apply(acpi_type, cfg, start, stop, failAt) ==
    IF acpi_type # "ThinkPad" THEN ConfigResult(start, stop, <<>>, "ApplyErr")
    ELSE IF failAt = 1 THEN ConfigResult(start, stop, <<"start">>, "ApplyErr")
    ELSE IF failAt = 2 THEN ConfigResult(cfg.start, stop, <<"start", "stop">>, "ApplyErr")
    ELSE ConfigResult(cfg.start, cfg.stop, <<"start", "stop">>, "Ok")

\* the mutually exclusive run modes of Args (rust/src/main.rs 11-24)
Modes == {"monitor", "live", "daemon", "install", "uninstall"}

\* main after Args::parse and the check of the effective user id
InitBoot ==
    /\ LoopIdle
    /\ fd = NoFd
    /\ poller = NoPoller
    /\ calc = NoCalc
    /\ \E entries \in Directories, acpi \in {"ThinkPad", "Unknown"}, cpu \in {"AMD", "Intel"},
          mode \in Modes :
         boot = [pc |-> "init", mode |-> mode, entries |-> entries, acpi |-> acpi, cpu |-> cpu,
                 adapter |-> 0, others |-> TRUE, cfg |-> "none", start |-> 0, stop |-> 100,
                 log |-> <<>>, read |-> UnreadStr, status |-> "none"]

\* SystemState::init().unwrap(): opens is whether the online file opens,
\* others whether every other control file does
BootInit ==
    /\ boot.pc = "init"
    /\ \E opens \in BOOLEAN, others \in BOOLEAN :
         LET r == load_charging_status(boot.entries, opens)
         IN  boot' = [boot EXCEPT !.adapter = r.adapter, !.others = others,
                                  !.pc = IF r.st = "Ok" /\ others THEN "post_init"
                                         ELSE "panicked"]
    /\ UNCHANGED <<loop, fd, poller, calc>>

\* system_state.post_init().unwrap() and the checks of linux and cpu_type
\* (rust/src/main.rs 35-43), made in every run mode: post_init
\* (system_state.rs 162-169) reads the charging status and applies the
\* performance or the powersave mode
BootPostInit ==
    /\ boot.pc = "post_init"
    /\ \E r \in OnlineReads :
         LET cs == read_charging_status(r)
             perf == r.st = "ok" /\ cs = "Charging"
         IN  \E g \in GuardReads(perf) :
             \E failAt \in WriteFailures(r.st = "ok" /\ (~perf \/
                             (g.st = "ok" /\ read_charging_status(g) # "DisCharging"))) :
               LET m == IF r.st # "ok" THEN ModeResult(gov, epp, <<>>, "Err")
                        ELSE IF cs = "Charging" THEN set_performance_mode(g, failAt)
                        ELSE set_powersave_mode(failAt)
               IN  /\ gov' = m.gov
                   /\ epp' = m.epp
                   /\ writes' = m.log
                   /\ result' = m.res
                   /\ boot' = [boot EXCEPT !.pc = IF m.res = "Err" THEN "panicked"
                                                  ELSE IF boot.cpu # "AMD" THEN "returned"
                                                  ELSE "config"]
    /\ UNCHANGED <<state, pc, event, classified, prevEvent, applied, oldState, sample,
                   guard, boostReq>>
    /\ UNCHANGED <<fd, poller, calc>>

\* the configuration (rust/src/main.rs 45-56): an error is printed and
\* main goes on
BootConfig ==
    /\ boot.pc = "config"
    /\ \E cfg \in Configs :
       \E failAt \in IF cfg.st = "Ok" /\ boot.acpi = "ThinkPad" THEN 0..2 ELSE {0} :
         LET r == IF cfg.st # "Ok" THEN ConfigResult(boot.start, boot.stop, <<>>, cfg.st)
                  ELSE Config_apply(boot.acpi, cfg, boot.start, boot.stop, failAt)
         IN  boot' = [boot EXCEPT !.cfg = r.res, !.start = r.start, !.stop = r.stop,
                                  !.log = r.log, !.pc = "mode"]
    /\ UNCHANGED <<loop, fd, poller, calc>>

\* a read of the charging status after startup, through the file found by
\* the discovery: Ok(ChargingStatus::from_string(&..read_value()?)); r is
\* what read_value returns
BootReadChargingStatus ==
    /\ boot.pc = "mode"
    /\ \E r \in OnlineReads :
         boot' = [boot EXCEPT !.read = r,
                              !.status = IF r.st = "ok" THEN read_charging_status(r)
                                         ELSE "Err"]
    /\ UNCHANGED <<loop, fd, poller, calc>>

NextBoot == BootInit \/ BootPostInit \/ BootConfig \/ BootReadChargingStatus

SpecBoot == InitBoot /\ [][NextBoot]_vars

\* ------------------------------------------------------------------------
\* SpecInstall: install_daemon and uninstall_daemon (setup.rs 31-219) as
\* main calls them (rust/src/main.rs 91-105). calc holds the call: the
\* service file (absent, stale, partial, new), whether the unit is enabled
\* and active, the steps made so far with their outcome, and the result.
\* A systemctl command either cannot be run (Command::output returns Err),
\* exits with a failure status, or succeeds; a command that does not
\* succeed has no effect on the unit.
\* ------------------------------------------------------------------------
SetupOutcomes == {"ok", "spawn_err", "exit_fail"}

SetupPending == "pending"

\* the step made and how it ended
Step(name, outcome) == [step |-> name, ok |-> outcome = "ok"]

InitInstall ==
    /\ LoopIdle
    /\ boot = NoBoot
    /\ fd = NoFd
    /\ poller = NoPoller
    /\ \E fn \in {"install_daemon", "uninstall_daemon"},
          file \in {"absent", "stale"}, enabled \in BOOLEAN, active \in BOOLEAN :
         calc = [fn |-> fn, pc |-> IF fn = "install_daemon" THEN "tools" ELSE "disable",
                 file |-> file, enabled |-> enabled, active |-> active,
                 was |-> [file |-> file, enabled |-> enabled, active |-> active],
                 conflicts |-> FALSE, log |-> <<>>, out |-> SetupPending]

\* let _ = check_installed_power_tools(); (setup.rs 32, 221-): whether a
\* conflicting service was found; the result is dropped
CheckInstalledPowerTools ==
    /\ calc.fn = "install_daemon" /\ calc.pc = "tools"
    /\ \E found \in BOOLEAN : calc' = [calc EXCEPT !.conflicts = found, !.pc = "write"]
    /\ UNCHANGED <<loop, boot, fd, poller>>

\* std::fs::write(SERVICE_PATH, service_file)? (setup.rs 64-74): the file
\* cannot be opened, or is opened (and truncated) and the write fails, or
\* is written
WriteServiceFile ==
    /\ calc.fn = "install_daemon" /\ calc.pc = "write"
    /\ \E o \in {"ok", "open_err", "write_err"} :
         calc' = [calc EXCEPT !.file = CASE o = "ok" -> "new"
                                         [] o = "write_err" -> "partial"
                                         [] OTHER -> @,
                              !.log = Append(@, Step("write", o)),
                              !.pc = IF o = "ok" THEN "reload" ELSE "done",
                              !.out = IF o = "ok" THEN @ ELSE "Err"]
    /\ UNCHANGED <<loop, boot, fd, poller>>

\* systemctl daemon-reload (setup.rs 76-95, 196-215): the third step of
\* install_daemon, the last of uninstall_daemon
DaemonReload ==
    /\ calc.fn \in {"install_daemon", "uninstall_daemon"} /\ calc.pc = "reload"
    /\ \E o \in SetupOutcomes :
         calc' = [calc EXCEPT !.log = Append(@, Step("daemon-reload", o)),
                              !.pc = IF o = "ok" /\ calc.fn = "install_daemon"
                                     THEN "enable" ELSE "done",
                              !.out = IF o # "ok" THEN "Err"
                                      ELSE IF calc.fn = "install_daemon" THEN @ ELSE "Ok"]
    /\ UNCHANGED <<loop, boot, fd, poller>>

\* systemctl enable going on to the next step when the command exits with
\* a failure status
Enable_ContinuesOnFailure ==
    /\ calc.fn = "install_daemon" /\ calc.pc = "enable"
    /\ \E o \in SetupOutcomes :
         calc' = [calc EXCEPT !.enabled = IF o = "ok" THEN TRUE ELSE @,
                              !.log = Append(@, Step("enable", o)),
                              !.pc = IF o # "spawn_err" THEN "start" ELSE "done",
                              !.out = IF o # "spawn_err" THEN @ ELSE "Err"]
    /\ UNCHANGED <<loop, boot, fd, poller>>

\* systemctl enable powereg (setup.rs 97-116)
Enable ==
    /\ calc.fn = "install_daemon" /\ calc.pc = "enable"
    /\ \E o \in SetupOutcomes :
         calc' = [calc EXCEPT !.enabled = IF o = "ok" THEN TRUE ELSE @,
                              !.log = Append(@, Step("enable", o)),
                              !.pc = IF o = "ok" THEN "start" ELSE "done",
                              !.out = IF o = "ok" THEN @ ELSE "Err"]
    /\ UNCHANGED <<loop, boot, fd, poller>>

\* systemctl start powereg (setup.rs 118-137), then Ok(()) (144)
Start ==
    /\ calc.fn = "install_daemon" /\ calc.pc = "start"
    /\ \E o \in SetupOutcomes :
         calc' = [calc EXCEPT !.active = IF o = "ok" THEN TRUE ELSE @,
                              !.log = Append(@, Step("start", o)),
                              !.pc = "done",
                              !.out = IF o = "ok" THEN "Ok" ELSE "Err"]
    /\ UNCHANGED <<loop, boot, fd, poller>>

\* systemctl disable powereg (setup.rs 148-164): a failure status is
\* printed and uninstall_daemon goes on
Disable ==
    /\ calc.fn = "uninstall_daemon" /\ calc.pc = "disable"
    /\ \E o \in SetupOutcomes :
         calc' = [calc EXCEPT !.enabled = IF o = "ok" THEN FALSE ELSE @,
                              !.log = Append(@, Step("disable", o)),
                              !.pc = IF o # "spawn_err" THEN "stop" ELSE "done",
                              !.out = IF o # "spawn_err" THEN @ ELSE "Err"]
    /\ UNCHANGED <<loop, boot, fd, poller>>

\* systemctl stop powereg (setup.rs 166-182): likewise
Stop ==
    /\ calc.fn = "uninstall_daemon" /\ calc.pc = "stop"
    /\ \E o \in SetupOutcomes :
         calc' = [calc EXCEPT !.active = IF o = "ok" THEN FALSE ELSE @,
                              !.log = Append(@, Step("stop", o)),
                              !.pc = IF o # "spawn_err" THEN "remove" ELSE "done",
                              !.out = IF o # "spawn_err" THEN @ ELSE "Err"]
    /\ UNCHANGED <<loop, boot, fd, poller>>

\* std::fs::remove_file(SERVICE_PATH)? (setup.rs 184-194): fails when the
\* file is absent
RemoveFile ==
    /\ calc.fn = "uninstall_daemon" /\ calc.pc = "remove"
    /\ \E o \in IF calc.file = "absent" THEN {"remove_err"} ELSE {"ok", "remove_err"} :
         calc' = [calc EXCEPT !.file = IF o = "ok" THEN "absent" ELSE @,
                              !.log = Append(@, Step("remove", o)),
                              !.pc = IF o = "ok" THEN "reload" ELSE "done",
                              !.out = IF o = "ok" THEN @ ELSE "Err"]
    /\ UNCHANGED <<loop, boot, fd, poller>>

NextInstall ==
    \/ CheckInstalledPowerTools \/ WriteServiceFile \/ DaemonReload \/ Enable \/ Start
    \/ Disable \/ Stop \/ RemoveFile

SpecInstall == InitInstall /\ [][NextInstall]_vars

\* ------------------------------------------------------------------------
\* SpecProfile: BatteryStates::set_platform_profile and
\* read_platform_profile (battery.rs 214-225) on the PersFd of
\* /sys/firmware/acpi/platform_profile, opened for writing (battery.rs
\* 140-142). fd is the handle; calc holds the last call: the profile last
\* written (pp) and what the call returned (out).
\* ------------------------------------------------------------------------

\* const LOW_POWER, BALANCED, PERFORMANCE (battery.rs 10-12), as characters
LOW_POWER == <<"l", "o", "w", "-", "p", "o", "w", "e", "r">>
BALANCED == <<"b", "a", "l", "a", "n", "c", "e", "d">>
PERFORMANCE == <<"p", "e", "r", "f", "o", "r", "m", "a", "n", "c", "e">>

PlatformProfiles == {"LowPower", "Balanced", "Performance", "Unknown"}

\* PlatformProfile::from_string (battery.rs 22-31)
PlatformProfile_from_string(str) ==
    CASE str = LOW_POWER -> "LowPower"
      [] str = BALANCED -> "Balanced"
      [] str = PERFORMANCE -> "Performance"
      [] OTHER -> "Unknown"

\* Display writing nothing for Unknown
PlatformProfile_to_string_UnknownEmpty(pp) ==
    CASE pp = "LowPower" -> LOW_POWER
      [] pp = "Balanced" -> BALANCED
      [] pp = "Performance" -> PERFORMANCE
      [] pp = "Unknown" -> <<>>

\* impl fmt::Display for PlatformProfile (battery.rs 33-42)
PlatformProfile_to_string(pp) ==
    CASE pp = "LowPower" -> LOW_POWER
      [] pp = "Balanced" -> BALANCED
      [] pp = "Performance" -> PERFORMANCE
      [] pp = "Unknown" -> BALANCED

\* what the attribute holds when the handle is opened
ProfileContents ==
    {LOW_POWER \o <<"\n">>, BALANCED \o <<"\n">>, PERFORMANCE \o <<"\n">>, <<"q", "\n">>}

InitProfile ==
    /\ LoopIdle
    /\ boot = NoBoot
    /\ poller = NoPoller
    /\ \E file \in ProfileContents :
         fd = [NoFd EXCEPT !.file = file, !.write = TRUE]
    /\ calc = [fn |-> "none", pp |-> "none", out |-> "none"]

\* set_platform_profile(pp): set_value(&pp.to_string())
SetPlatformProfile ==
    /\ \E pp \in PlatformProfiles :
       \E failAt \in 0..3 :
       \E partial \in Partials(failAt, 3, Len(PlatformProfile_to_string(pp))) :
         LET value == PlatformProfile_to_string(pp)
             r == set_value(fd, value, failAt, partial)
         IN  /\ fd' = [fd EXCEPT !.file = r.file, !.offset = r.offset, !.op = "set_value",
                                 !.arg = value, !.ret = r.ret, !.was = Len(fd.file),
                                 !.prev = LastCall]
             /\ calc' = [fn |-> "set_platform_profile", pp |-> pp,
                         out |-> IF r.ret.st = "Ok" THEN "Ok" ELSE "Err"]
    /\ UNCHANGED <<loop, boot, poller>>

\* read_platform_profile(): PlatformProfile::from_string(&..read_value()?)
ReadPlatformProfile ==
    /\ \E failAt \in 0..2 :
       \E partial \in Partials(failAt, 2, Len(fd.file)) :
         LET r == read_value(fd, failAt, partial)
         IN  /\ fd' = [fd EXCEPT !.file = r.file, !.offset = r.offset, !.op = "read_value",
                                 !.arg = <<>>, !.ret = r.ret, !.was = Len(fd.file),
                                 !.prev = LastCall]
             /\ calc' = [fn |-> "read_platform_profile", pp |-> calc.pp,
                         out |-> IF r.ret.st = "Ok" THEN PlatformProfile_from_string(r.ret.v)
                                 ELSE "Err"]
    /\ UNCHANGED <<loop, boot, poller>>

NextProfile == SetPlatformProfile \/ ReadPlatformProfile

SpecProfile == InitProfile /\ [][NextProfile]_vars

\* ========================================================================
\* Properties
\* ========================================================================

\* state_transition has been applied at least once: oldState --classified--> state
Applied == pc = "fn" /\ applied >= 1

\* C1: from every state a PowerInPlug event yields Performance, and a
\* second PowerInPlug, applied to the Performance it produced, yields
\* Performance again.
C1_PowerPlugYieldsPerformance ==
    /\ (Applied /\ classified = "PowerInPlug") => state = "Performance"
    /\ (Applied /\ applied >= 2 /\ prevEvent = "PowerInPlug" /\ classified = "PowerInPlug")
          => (oldState = "Performance" /\ state = "Performance")

C1_Witness ==
    /\ Applied /\ applied >= 2
    /\ prevEvent = "PowerInPlug" /\ classified = "PowerInPlug"
    /\ oldState = "Performance" /\ state = "Performance"

\* C2: from every state a PowerUnPlug event and a LowBattery event yield
\* Powersave.
C2_UnplugAndLowBatteryYieldPowersave ==
    (Applied /\ classified \in {"PowerUnPlug", "LowBattery"}) => state = "Powersave"

C2_Witness ==
    Applied /\ classified = "LowBattery" /\ oldState = "Balanced" /\ state = "Powersave"

ListedTrigger(s, e) ==
    \/ e \in {"PowerInPlug", "PowerUnPlug", "LowBattery"}
    \/ s = "Performance" /\ e = "HighCpuLoad"

\* C4 as stated: every event that is not a listed trigger of the state it
\* is applied in leaves the state unchanged.
C4_OthersUnchanged ==
    (Applied /\ ~ListedTrigger(oldState, classified)) => state = oldState

\* C4 amended: every event that is not a listed trigger leaves the state
\* unchanged, except HighCpuLoad and LowCpuLoad applied in Balanced, which
\* yield Performance.
C4_OthersUnchangedButLoadInBalanced ==
    /\ (Applied /\ ~ListedTrigger(oldState, classified)
          /\ ~(oldState = "Balanced" /\ classified \in {"HighCpuLoad", "LowCpuLoad"}))
          => state = oldState
    /\ (Applied /\ oldState = "Balanced" /\ classified \in {"HighCpuLoad", "LowCpuLoad"})
          => state = "Performance"

C4_Witness ==
    Applied /\ oldState = "Powersave" /\ classified = "HighCpuLoad" /\ state = "Powersave"

\* ------------------------------------------------------------------------
\* Properties of handle_event (Spec)
\* ------------------------------------------------------------------------

\* handle_event has returned (to the unwrap of main) for the polled event
Handled == pc \in {"poll", "panicked"} /\ event # "none"

\* one of the reads of the call returned Err
SomeReadFailed == \E f \in {"load", "cap", "online", "boost"} : sample[f].st = "err"

\* the CPU load was read, a read of periodic_check returned Err
ClassificationReadFailed ==
    sample.load.st = "ok" /\ \E f \in {"cap", "online", "boost"} : sample[f].st = "err"

\* every read the classification needed was made and returned a value
AllReadsOk ==
    /\ sample.load.st = "ok" /\ sample.cap.st = "ok"
    /\ sample.cap.v <= 20 \/ (sample.online.st = "ok" /\ sample.boost.st = "ok")

ClassifiedFromMetrics ==
    {"LowBattery", "HighCpuLoad", "LowCpuLoad", "PowerUnPlug", "PowerInPlug"}

PriorityClassifier(smp, st) ==
    LET cs == ChargingStatus_from_string(smp.online.v)
    IN  IF smp.cap.v <= 20 THEN "LowBattery"
        ELSE IF cs = "DisCharging" /\ st \in {"Performance", "Balanced"} THEN "PowerUnPlug"
        ELSE IF cs = "Charging" /\ st = "Powersave" THEN "PowerInPlug"
        ELSE IF smp.load.v >= 35 THEN "HighCpuLoad"
        ELSE IF cs = "Charging" /\ st = "Balanced" THEN "LoadNormalized"
        ELSE "Unknown"

C8_LowBatteryFirst ==
    (Handled /\ sample.load.st = "ok" /\ sample.cap.st = "ok" /\ sample.cap.v <= 20) =>
        /\ classified = "LowBattery"
        /\ \A o \in OnlineReads, b \in BoostReads :
              periodic_check([sample EXCEPT !.online = o, !.boost = b], sample.load.v).ev
                  = "LowBattery"

C8_Witness ==
    /\ Handled /\ sample.cap.st = "ok" /\ sample.cap.v = 20 /\ sample.load.v = 90
    /\ classified = "LowBattery"

\* C9: set_performance_mode, when its read of the charging status gives
\* DisCharging, modifies no governor and no EPP file, makes no set_value
\* call and returns Ok.
C9_DischargingGuardNoWrites ==
    [][(pc \in {"post_init", "handle"} /\ guard'.st = "ok" /\ guard'.v = "0")
          => (gov' = gov /\ epp' = epp /\ writes' = <<>> /\ result' = "Ok")]_vars

C9_Witness ==
    /\ Handled /\ state = "Performance" /\ oldState = "Powersave"
    /\ guard.st = "ok" /\ guard.v = "0"
    /\ writes = <<>> /\ result = "Ok"
    /\ \A c \in Cores : gov[c] = "powersave"

\* C10: a mode application writes the governor files, then the EPP files,
\* and a failed write does not keep the writes after it from being
\* attempted: every governor file and every EPP file is written to.
C10_BestEffortWrites ==
    writes # <<>> =>
        /\ \A c \in Cores :
              /\ \E i \in DOMAIN writes : writes[i].ctl = "governor" /\ writes[i].core = c
              /\ \E i \in DOMAIN writes : writes[i].ctl = "epp" /\ writes[i].core = c
        /\ \A i, j \in DOMAIN writes :
              (writes[i].ctl = "governor" /\ writes[j].ctl = "epp") => i < j

\* a set_value call of the last operation returned Err
SomeWriteFailed == \E i \in DOMAIN writes : ~writes[i].ok

\* C11: a control write that fails while handle_event applies a mode does
\* not end the loop of main: main goes on to poll the next event.
C11_WriteFailureKeepsLoop ==
    (Handled /\ SomeWriteFailed) => pc = "poll"

\* C12: when a metric read (CPU load, capacity, charging status, boost)
\* fails while a PeriodicCheck is handled, the tick is a no-op: the state
\* is unchanged, no control file is written, and main goes on to poll.
C12_ReadFailureIsNoOp ==
    (Handled /\ event = "PeriodicCheck" /\ SomeReadFailed) =>
        /\ state = oldState
        /\ writes = <<>>
        /\ pc = "poll"

\* a PeriodicCheck handled from Performance with the capacity read as 15
LowBatteryTick ==
    /\ Handled /\ event = "PeriodicCheck" /\ oldState = "Performance"
    /\ sample.load.st = "ok" /\ sample.cap = Rd(15)

\* the set_value calls of the last operation that name control ctl
WritesTo(ctl) == {i \in DOMAIN writes : writes[i].ctl = ctl}

PowersaveWrites ==
    [i \in 1..(2 * NumCores) |->
        IF i <= NumCores THEN [ctl |-> "governor", core |-> i, val |-> "powersave"]
        ELSE [ctl |-> "epp", core |-> i - NumCores, val |-> "balance_power"]]

HighLoadTick ==
    /\ Handled /\ event = "PeriodicCheck" /\ oldState = "Performance"
    /\ sample.load = Rd(90) /\ sample.cap = Rd(80) /\ sample.online = Rd("1")

CoreValues ==
    [i \in DOMAIN calc.files |->
        IF calc.fn = "read_epp" THEN EPP_from_string(calc.files[i].v)
        ELSE ScalingGoverner_from_string(calc.files[i].v)]

GovRead == calc.fn \in {"read_scaling_governer", "read_epp"} /\ calc.out # ReadPending

AllCoresRead == \A i \in DOMAIN calc.files : calc.files[i].st = "ok"

\* every core holds the same known value
AllSameKnown ==
    /\ AllCoresRead
    /\ \A i \in DOMAIN calc.files : CoreValues[i] = CoreValues[1] /\ CoreValues[i] # "Unknown"

C16_NotWritableWriteFails ==
    [][(fd'.op = "set_value" /\ ~fd.write) =>
          /\ fd'.ret.st = "InvalidFilePerms"
          /\ fd'.file = fd.file
          /\ fd'.offset = fd.offset]_vars

C16_Witness ==
    /\ fd.op = "set_value" /\ ~fd.write /\ fd.ret.st = "InvalidFilePerms"
    /\ fd.arg = <<"a">> /\ fd.file = <<"b", "a", "b", "a", "\n">> /\ fd.offset = 5
    /\ fd.prev.op = "read_value" /\ fd.prev.ok

\* C17: after a set_value(v) that returns Ok the file holds v followed by
\* one newline and nothing else, whatever it held before; a read_value that
\* follows it and returns Ok returns v trimmed of surrounding whitespace,
\* whatever calls were made on the handle before.
C17_WriteThenRead ==
    /\ (fd.op = "set_value" /\ fd.ret.st = "Ok") => fd.file = fd.arg \o <<"\n">>
    /\ (fd.op = "read_value" /\ fd.ret.st = "Ok" /\ fd.prev.op = "set_value" /\ fd.prev.ok)
          => fd.ret.v = Trim(fd.prev.arg)

C17_Witness ==
    /\ fd.op = "read_value" /\ fd.ret = [st |-> "Ok", v |-> <<"a">>]
    /\ fd.prev = [op |-> "set_value", arg |-> <<" ", "a">>, ok |-> TRUE, was |-> 5]
    /\ fd.file = <<" ", "a", "\n">>

\* read_cpu_load has returned for two samples it accepts
LoadComputed ==
    /\ calc.fn \in {"read_cpu_load", "SystemFds_read_cpu_load"}
    /\ calc.out # LoadPending
    /\ calc.prev.st = "ok" /\ calc.now.st = "ok"
    /\ Len(calc.prev.v) \in 4..10 /\ Len(calc.now.v) \in 4..10

\* the deltas as the claim defines them
TotalDelta == Max(1, Sum(calc.now.v) - Sum(calc.prev.v))
IdleDelta ==
    (calc.now.v[4] + (IF Len(calc.now.v) >= 5 THEN calc.now.v[5] ELSE 0))
    - (calc.prev.v[4] + (IF Len(calc.prev.v) >= 5 THEN calc.prev.v[5] ELSE 0))
BusyDelta == Max(0, TotalDelta - IdleDelta)

\* C18: for two samples the load returned is busyDelta / totalDelta * 100,
\* with idle = idle + iowait, totalDelta = max(1, nowTotal - prevTotal) and
\* busyDelta = max(0, totalDelta - idleDelta); the divisor is never zero,
\* also when the total did not advance or went backwards.
C18_LoadFormula ==
    /\ calc.fn \in {"read_cpu_load", "SystemFds_read_cpu_load"} => calc.out.den >= 1
    /\ LoadComputed =>
          /\ calc.out.st = "Ok"
          /\ calc.out.den = TotalDelta
          /\ calc.out.num = BusyDelta * 100

\* the total went backwards between the samples
C18_Witness ==
    /\ LoadComputed /\ calc.fn = "read_cpu_load"
    /\ Sum(calc.now.v) < Sum(calc.prev.v)
    /\ calc.out = [st |-> "Ok", num |-> 500, den |-> 1]

\* a power-draw read has returned for a second reading below the first
CounterWentBack ==
    /\ calc.fn \in {"read_cpu_power_draw", "SystemFds_read_cpu_power_draw"}
    /\ calc.out # PowerPending
    /\ calc.present
    /\ calc.start.st = "ok" /\ calc.end.st = "ok"
    /\ calc.end.v < calc.start.v

\* C19: when the second reading of the energy counter is smaller than the
\* first, the power-draw read returns 0 W: no negative or wrapped value,
\* and no failure on the subtraction.
C19_CounterResetReportsZero ==
    CounterWentBack => (calc.out.st = "Ok" /\ calc.out.num = 0)

\* C20: when the interval has elapsed as the wait of poll_events returns,
\* poll_events resets the timestamp and returns PeriodicCheck, leaving the
\* pending notifications in the socket; and whether notifications keep
\* arriving or none arrives, PeriodicCheck is returned again and again.
C20_PeriodicNeverStarved ==
    /\ [][(poller.pc = "poll" /\ poller'.pc = "return" /\ poller'.polled # "Error"
             /\ poller.elapsed >= LOOP_DURATION)
          => (poller'.polled = "PeriodicCheck" /\ poller'.elapsed = 0
                /\ poller'.socket = poller.socket)]_vars
    /\ []<>(poller.pc = "return" /\ poller.polled = "PeriodicCheck")

\* PeriodicCheck returned while two notifications are pending
C20_Witness ==
    /\ poller.pc = "return" /\ poller.polled = "PeriodicCheck" /\ poller.elapsed = 0
    /\ Len(poller.socket) = MaxSocket
    /\ poller.socket[1] = Notification("change", "AC", "0")

\* no entry of the directory has a name starting with "AC" / "ACAD" and an
\* online attribute
NoAdapterEntry ==
    \A i \in DOMAIN boot.entries :
        ~(boot.entries[i].online /\ starts_with(boot.entries[i].name, "AC"))

\* C21: when no power-supply entry has a name starting with "AC" / "ACAD"
\* and an online attribute, and every other control file opens, startup
\* succeeds and every later read of the charging status gives Unknown.
C21_NoAdapterDegrades ==
    (boot.pc \in {"post_init", "config", "mode", "returned", "panicked"}
       /\ NoAdapterEntry /\ boot.others) =>
        /\ boot.pc # "panicked"
        /\ boot.status \in {"none", "Unknown"}

\* C23: with the ACPI type Unknown, Config::apply returns an error, writes
\* neither the start nor the stop threshold, and main goes on; a threshold
\* is written only with the ACPI type ThinkPad.
C23_ThresholdsNeedAcpi ==
    /\ (boot.pc = "mode" /\ boot.acpi = "Unknown" /\ boot.cfg \notin {"PathErr", "ParseErr"}) =>
          (boot.cfg = "ApplyErr" /\ boot.log = <<>> /\ boot.start = 0 /\ boot.stop = 100)
    /\ (boot.pc \in {"mode", "config"} /\ boot.log # <<>>) => boot.acpi = "ThinkPad"
    /\ (boot.pc = "mode" /\ boot.acpi = "Unknown") => boot.cfg # "Ok"

C23_Witness ==
    /\ boot.pc = "mode" /\ boot.acpi = "Unknown" /\ boot.cfg = "ApplyErr"
    /\ boot.log = <<>> /\ boot.status = "Charging"

ReadNotifications ==
    poller.pc = "return" /\ poller.polled \in {"PowerInPlug", "PowerUnPlug", "Unknown"}

\* a change notification naming an adapter the startup discovery accepts
\* (a name starting with "AC", battery.rs 152)
NamesDiscovered(n) == n.type = "change" /\ starts_with(n.name, "AC")

\* C24: on the non-periodic path poll_events returns PowerInPlug when the
\* first change notification whose name the startup discovery accepts
\* carries online "1", PowerUnPlug when it carries "0", and Unknown when no
\* notification of the batch has such a name.
C24_PollerFollowsDiscovery ==
    ReadNotifications =>
        LET named == {i \in DOMAIN poller.batch : NamesDiscovered(poller.batch[i])}
        IN  IF named = {} THEN poller.polled = "Unknown"
            ELSE LET first == CHOOSE i \in named : \A j \in named : i <= j
                     online == poller.batch[first].online
                 IN  /\ online = "1" => poller.polled = "PowerInPlug"
                     /\ online = "0" => poller.polled = "PowerUnPlug"

\* a change notification of an adapter with the online property, as the
\* loop of poll_events tests it (events.rs 172-181)
AdapterChange(n) == n.type = "change" /\ n.name \in AdapterNames /\ n.online # "none"

\* what the socket holds as the call returns, before any new notification
Unread(before, after) ==
    before.pc = "poll" /\ after.pc = "return"
        /\ after.polled \in {"PowerInPlug", "PowerUnPlug", "Unknown"}

\* C25 as stated: the notifications of the batch that follow the first
\* adapter notification are discarded, the socket is empty as poll_events
\* returns on the non-periodic path.
C25_RestOfBatchDiscarded ==
    [][Unread(poller, poller') => poller'.socket = <<>>]_vars

\* C25: on the non-periodic path the first adapter notification of the
\* batch determines the event; the notifications after it stay in the
\* socket, in their order, for the later calls (all are consumed only when
\* the batch holds no adapter notification).
C25_RestOfBatchStaysQueued ==
    [][Unread(poller, poller') =>
         LET batch == poller.socket
             hits == {i \in DOMAIN batch : AdapterChange(batch[i])}
         IN  IF hits = {} THEN poller'.socket = <<>> /\ poller'.polled = "Unknown"
             ELSE LET first == CHOOSE i \in hits : \A j \in hits : i <= j
                  IN  /\ poller'.socket = SubSeq(batch, first + 1, Len(batch))
                      /\ poller'.polled =
                           (CASE batch[first].online = "1" -> "PowerInPlug"
                              [] batch[first].online = "0" -> "PowerUnPlug"
                              [] OTHER -> "Unknown")]_vars

\* two adapter notifications were buffered: the first gave the event, the
\* second is still in the socket
C25_Witness ==
    /\ ReadNotifications /\ poller.polled = "PowerUnPlug"
    /\ poller.batch = <<Notification("change", "AC", "0"), Notification("change", "AC", "1")>>
    /\ poller.socket = <<Notification("change", "AC", "1")>>

\* C27 as stated: a charging-status read of an unreadable source gives
\* Unknown.
C27_UnreadableReadsUnknown ==
    boot.read.st = "err" => boot.status = "Unknown"

\* C27: a charging-status read gives Charging for the content "1",
\* DisCharging for "0" and Unknown for any other content; when the source
\* cannot be read the read returns the error to its caller.
C27_ChargingStatusOfContent ==
    /\ boot.read.st = "ok" =>
         /\ boot.read.v = "1" => boot.status = "Charging"
         /\ boot.read.v = "0" => boot.status = "DisCharging"
         /\ boot.read.v \notin {"1", "0"} => boot.status = "Unknown"
    /\ boot.read.st = "err" => boot.status = "Err"

C27_Witness == boot.read.st = "ok" /\ boot.read.v = "2" /\ boot.status = "Unknown"

\* every core holds the governor and the EPP of the profile of state st
HoldsProfile(st, g, e) ==
    \A i \in Cores :
        /\ st = "Performance" => (g[i] = "performance" /\ e[i] = "performance")
        /\ st = "Powersave" => (g[i] = "powersave" /\ e[i] = "balance_power")
        /\ st = "Balanced" => (g[i] \in {"powersave", "performance"}
                                 /\ e[i] \in {"balance_performance", "balance_power"})

\* C26: when a knob lags behind the profile of the PowerState as a periodic
\* tick is handled, and the tick is handled successfully and leaves the
\* state as it is, every core holds the profile of the state afterwards.
C26_TickRewritesLaggingKnob ==
    [][(pc = "handle" /\ event = "PeriodicCheck" /\ ~HoldsProfile(state, gov, epp)
          /\ result' = "Ok" /\ state' = state)
       => HoldsProfile(state', gov', epp')]_vars

\* C28: the PowerState is Performance or Powersave in every reachable state
\* of the control loop, and no write ever made is one of the balanced mode:
\* the governor and EPP written together are those of the performance or
\* of the powersave profile.
C28_NeverBalanced ==
    /\ state \in {"Performance", "Powersave"}
    /\ oldState \in {"Performance", "Powersave"}
    /\ \A i \in DOMAIN writes :
         \/ writes[i].ctl = "governor" /\ writes[i].val \in {"performance", "powersave"}
         \/ writes[i].ctl = "epp" /\ writes[i].val = "performance"
              /\ writes[1].val = "performance"
         \/ writes[i].ctl = "epp" /\ writes[i].val = "balance_power"
              /\ writes[1].val = "powersave"

\* a high load tick handled in Performance: the state stays Performance and
\* the performance profile is written
C28_Witness ==
    /\ Handled /\ classified = "HighCpuLoad" /\ oldState = "Performance"
    /\ state = "Performance" /\ writes # <<>> /\ result = "Ok"

\* C29: after set_scaling_governer or set_epp has returned, with success or
\* with the error of one core's write, all cores hold the same governor and
\* all cores hold the same EPP.
C29_CoresAgreeAfterWrite ==
    writes # <<>> =>
        \A i, j \in Cores : gov[i] = gov[j] /\ epp[i] = epp[j]

\* C30: whenever handle_event has returned Ok, every core holds the
\* governor and the EPP of the profile of the recorded PowerState.
C30_OkMeansProfileApplied ==
    (Handled /\ result = "Ok") => HoldsProfile(state, gov, epp)

\* handle_event returned Ok after a classification whose reads all succeeded
OkAfterClassification == Handled /\ result = "Ok" /\ AllReadsOk

\* C31: after a handle_event that returns Ok and whose classification read
\* a capacity <= 20, or read a charging status of DisCharging with every
\* read succeeding, the PowerState is Powersave and no write of that call
\* carries the performance governor or the performance EPP.
C31_BatteryMeansPowersave ==
    (OkAfterClassification /\ (sample.cap.v <= 20 \/ sample.online.v = "0")) =>
        /\ state = "Powersave"
        /\ \A i \in DOMAIN writes : writes[i].val # "performance"

\* discharging at capacity 80 under high load, from Performance: the
\* powersave profile is written
C31_Witness ==
    /\ OkAfterClassification /\ oldState = "Performance" /\ state = "Powersave"
    /\ sample.cap = Rd(80) /\ sample.online = Rd("0") /\ sample.load = Rd(90)
    /\ sample.boost = Rd("0") /\ writes # <<>>

\* the classification read Charging and a capacity above 20
OnAcPower == sample.cap.v > 20 /\ sample.online.v = "1"

PostInitDone == pc \in {"poll", "panicked"} /\ event = "none"

\* C33: a charging status of Unknown selects Performance neither at startup
\* nor at runtime: post_init reading Unknown writes no performance value,
\* and a handle_event whose classification read Unknown (capacity above 20,
\* every read succeeding) does not take the state from Powersave to
\* Performance.
C33_UnknownNeverSelectsPerformance ==
    /\ (PostInitDone /\ sample.online.st = "ok" /\ sample.online.v \notin {"1", "0"}) =>
          \A i \in DOMAIN writes : writes[i].val # "performance"
    /\ (Handled /\ AllReadsOk /\ sample.cap.v > 20 /\ sample.online.v \notin {"1", "0"}
          /\ oldState = "Powersave") => state = "Powersave"

\* C34: handle_event issues control writes only when the resulting state is
\* Performance or the state has changed; when the resulting state is
\* Performance, state change or not, set_performance_mode is called (its
\* guard read is made) with boost requested exactly when the sampled load
\* is >= 35, and what it writes is the performance profile; a call that
\* leaves the state at Powersave issues no control write.
C34_WritesOnlyWhenPerformanceOrChanged ==
    Handled =>
        /\ writes # <<>> => (state = "Performance" \/ state # oldState)
        /\ (state = "Performance" /\ sample.load.st = "ok") =>
              /\ guard.st # "unread"
              /\ boostReq = (sample.load.v >= 35)
              /\ \A i \in DOMAIN writes : writes[i].val = "performance"
              /\ (guard.st = "ok" /\ guard.v # "0") => writes # <<>>
        /\ state # "Performance" => (guard.st = "unread" /\ ~boostReq)
        /\ (state = "Powersave" /\ oldState = "Powersave") => writes = <<>>

\* the performance mode written again on an event that keeps Performance,
\* with boost requested
C34_Witness ==
    /\ Handled /\ oldState = "Performance" /\ state = "Performance"
    /\ sample.load = Rd(35) /\ boostReq /\ Len(writes) = 2 * NumCores /\ result = "Ok"

\* C35: when its reads succeed the periodic classifier returns HighCpuLoad
\* only for a load >= 35 with the battery not discharging and the boost
\* off, LowCpuLoad only for a load < 30 with the battery not discharging and
\* the boost on, neither for a load in [30, 35), and always one of
\* LowBattery, HighCpuLoad, LowCpuLoad, PowerUnPlug, PowerInPlug.
C35_LoadEventsOnlyInTheirBands ==
    (Handled /\ AllReadsOk) =>
        /\ classified = "HighCpuLoad" =>
              (sample.load.v >= 35 /\ sample.online.v # "0" /\ sample.boost.v # "1")
        /\ classified = "LowCpuLoad" =>
              (sample.load.v < 30 /\ sample.online.v # "0" /\ sample.boost.v = "1")
        /\ (sample.load.v >= 30 /\ sample.load.v < 35) =>
              classified \notin {"HighCpuLoad", "LowCpuLoad"}
        /\ classified \in {"LowBattery", "HighCpuLoad", "LowCpuLoad", "PowerUnPlug",
                           "PowerInPlug"}

\* a load of 30 on AC power with the boost on is neither high nor low
C35_Witness ==
    /\ Handled /\ AllReadsOk /\ event = "PeriodicCheck"
    /\ sample.load = Rd(30) /\ sample.cap = Rd(80) /\ sample.online = Rd("1")
    /\ sample.boost = Rd("1") /\ classified = "PowerInPlug"

\* C36: for every pair of samples the parser accepts, the CPU load returned
\* lies between 0 and 100 percent, also when idle + iowait decreases
\* between the samples or the total does not advance.
C36_LoadWithinPercentRange ==
    calc.out.st = "Ok" =>
        (calc.out.num >= 0 /\ calc.out.num <= 100 * calc.out.den)

\* C37: a process started in monitor, install or uninstall mode makes no
\* write to a CPU or battery control file: neither a governor nor an EPP
\* nor a charge threshold is written during its run.
C37_MonitorNeverWrites ==
    boot.mode \in {"monitor", "install", "uninstall"} =>
        (writes = <<>> /\ boot.log = <<>>)

\* the steps of install_daemon in their order
InstallOrder == <<"write", "daemon-reload", "enable", "start">>

\* C38: install_daemon makes its steps in the order write service file,
\* daemon-reload, enable, start, and stops at the first step that fails:
\* every step made but the last has succeeded, it returns Ok only after the
\* four steps, the unit is enabled or started by it only after every
\* earlier step succeeded, and once the file is written it stays in place
\* whatever fails afterwards.
C38_InstallStopsAtFirstFailure ==
    calc.fn = "install_daemon" =>
        /\ Len(calc.log) <= 4
        /\ \A i \in DOMAIN calc.log :
              /\ calc.log[i].step = InstallOrder[i]
              /\ i < Len(calc.log) => calc.log[i].ok
        /\ (calc.log # <<>> /\ ~calc.log[Len(calc.log)].ok) =>
              (calc.pc = "done" /\ calc.out = "Err")
        /\ calc.out = "Ok" <=> (Len(calc.log) = 4 /\ calc.log[4].ok)
        /\ calc.enabled # calc.was.enabled => (Len(calc.log) >= 3 /\ calc.log[3].ok)
        /\ calc.active # calc.was.active => (Len(calc.log) = 4 /\ calc.log[4].ok)
        /\ (calc.log # <<>> /\ calc.log[1].ok) => calc.file = "new"

\* enable fails after the file was written and the daemon reloaded: the
\* unit is neither enabled nor started, the file is there
C38_Witness ==
    /\ calc.fn = "install_daemon" /\ calc.pc = "done" /\ calc.out = "Err"
    /\ Len(calc.log) = 3 /\ ~calc.log[3].ok
    /\ calc.file = "new" /\ ~calc.enabled /\ ~calc.active /\ calc.was.file = "absent"

\* read_platform_profile has returned a profile right after a
\* set_platform_profile that returned Ok
ReadBackProfile ==
    /\ calc.fn = "read_platform_profile" /\ calc.out # "Err"
    /\ fd.prev.op = "set_value" /\ fd.prev.ok

\* C39: reading the platform profile back after writing LowPower, Balanced
\* or Performance gives the profile written; writing Unknown puts the
\* string "balanced" in the attribute, so that reading it back gives
\* Balanced and not Unknown.
C39_ProfileRoundTrip ==
    /\ ReadBackProfile =>
          calc.out = (IF calc.pp = "Unknown" THEN "Balanced" ELSE calc.pp)
    /\ (calc.fn = "set_platform_profile" /\ calc.out = "Ok" /\ calc.pp = "Unknown") =>
          fd.file = <<"b", "a", "l", "a", "n", "c", "e", "d", "\n">>
    /\ (calc.fn = "set_platform_profile" /\ calc.out = "Ok" /\ calc.pp = "LowPower") =>
          fd.file = <<"l", "o", "w", "-", "p", "o", "w", "e", "r", "\n">>

\* Unknown written over "performance" and read back as Balanced
C39_Witness ==
    /\ ReadBackProfile /\ calc.pp = "Unknown" /\ calc.out = "Balanced"
    /\ fd.prev.was = 12

====
